---- MODULE Spec2Model ----
(***************************************************************************)
(* Paper-trading ledger (BalanceManager, PositionTracker, TradeExecutor,   *)
(* PortfolioManager) and the TradingAgent decision cycle of                *)
(* polymarket-agent.                                                       *)
(*                                                                         *)
(* Numbers.  The source computes in IEEE doubles; the model computes the   *)
(* same expressions in exact arithmetic:                                   *)
(*   - a price is an integer number of ticks, PriceScale ticks = 1.0;      *)
(*   - shares are integers;                                                *)
(*   - money (cash, totalValue, totalCost, fees) is an integer number of   *)
(*     units, one unit = 1/(PriceScale*FeeDen) of a dollar, so that        *)
(*     shares*price and the 0.1% fee on it are both whole units;           *)
(*   - avgPrice, unrealizedPnL and realizedPnL are rationals [n, d] in     *)
(*     lowest terms (d > 0), in ticks resp. tick*shares; a division by     *)
(*     zero gives what the double division gives: [0,0] is NaN, [1,0] is   *)
(*     +Infinity, [-1,0] is -Infinity.                                     *)
(* Timestamps (lastUpdated, timestamp, openedAt), marketQuestion and the   *)
(* position's own uuid are payload that no operation reads; they are left  *)
(* out of the records.                                                     *)
(***************************************************************************)
EXTENDS Integers, Sequences, FiniteSets, TLC

VARIABLES
    balance,     \* BalanceManager.balance: [cash, totalValue, initialBalance]
    positions,   \* PositionTracker.positions: key string -> Position
    keyOrder,    \* the insertion order of that Map's keys (its iteration order)
    history,     \* TradeExecutor.history: sequence of Trade
    nextId,      \* number of uuids minted so far (the next trade id)
    ret,         \* the last call or continuation and what it did
    config,      \* TradingAgent.config (RiskManager.config holds the same values)
    status,      \* TradingAgent.status
    markets,     \* TradingAgent.markets: the cached market snapshot
    cycles,      \* the runCycle() calls in flight, each parked at an await
    intervalId,  \* TradingAgent.intervalId: a timer handle, 0 for null
    timers,      \* the handles of the intervals armed in the event loop
    store        \* under SpecStore: balance, positions and history as the
                 \* JavaScript values serialize() reads and restore() writes

ledger == <<balance, positions, keyOrder, history, nextId>>
timer == <<intervalId, timers>>
agent == <<config, status, markets, cycles, timer, store>>
vars == <<balance, positions, keyOrder, history, nextId, ret,
          config, status, markets, cycles, intervalId, timers, store>>

---------------------------------------------------------------------------
(* Bounds and units *)

PriceScale == 100
FeeNum == 1
FeeDen == 1000
InitialBalance == 2
MaxExec == 2

AgentInitialBalance == 1000
MaxInFlight == 1
MaxOverlap == 2
MaxTimers == 2

Dollar == PriceScale * FeeDen
Prices == {0, 50, 100}
ShareSizes == {1, 2}
Markets == {"m1", "m2"}
OrderMarkets == {"m1"}
Outcomes == {"YES", "NO"}

---------------------------------------------------------------------------
(* Exact arithmetic *)

Abs(x) == IF x < 0 THEN 0 - x ELSE x

Sign(x) == IF x < 0 THEN 0 - 1 ELSE IF x > 0 THEN 1 ELSE 0

RECURSIVE GCD(_, _)
GCD(a, b) == IF b = 0 THEN a ELSE GCD(b, a % b)

Rat(n, d) ==
    IF d = 0 THEN [n |-> Sign(n), d |-> 0]
    ELSE LET g == GCD(Abs(n), Abs(d))
             s == Sign(d)
         IN  [n |-> (s * n) \div g, d |-> (s * d) \div g]

RInt(i) == [n |-> i, d |-> 1]

RAdd(x, y) == Rat(x.n * y.d + y.n * x.d, x.d * y.d)

RSub(x, y) == Rat(x.n * y.d - y.n * x.d, x.d * y.d)

RMul(x, y) == Rat(x.n * y.n, x.d * y.d)

RDiv(x, y) == Rat(x.n * y.d, x.d * y.n)

RLess(x, y) == x.n * y.d < y.n * x.d

RMin(x, y) == IF RLess(y, x) THEN y ELSE x

RMax(x, y) == IF RLess(x, y) THEN y ELSE x

RAbs(x) == [n |-> Abs(x.n), d |-> x.d]

RFloor(x) == x.n \div x.d

\* a price or a confidence of t ticks as a number
Num(t) == Rat(t, PriceScale)

---------------------------------------------------------------------------
(* BalanceManager (engine/balance.ts) *)

NewBalance(initial) ==
    [cash |-> initial, totalValue |-> initial, initialBalance |-> initial]

getCash(b) == b.cash

\* mutant: the affordability check always passes
canAfford_Always(b, amount) == TRUE

canAfford(b, amount) == b.cash >= amount

deductCash(b, amount) ==
    IF ~canAfford(b, amount) THEN b
    ELSE [b EXCEPT !.cash = b.cash - amount]

\* mutant: "=" written for "+="
addCash_Overwrite(b, amount) == [b EXCEPT !.cash = amount]

addCash(b, amount) == [b EXCEPT !.cash = b.cash + amount]

updateTotalValue(b, positionsValue) ==
    [b EXCEPT !.totalValue = b.cash + positionsValue]

\* mutant: reset takes the cash at hand for the initial balance
BalanceManager_reset_ToCash(b) == NewBalance(b.cash)

BalanceManager_reset(b) == NewBalance(b.initialBalance)

---------------------------------------------------------------------------
(* PositionTracker (engine/trades.ts, second half) *)

Key(marketId, outcome) == marketId \o "-" \o outcome

TokenId(marketId, outcome) == "tok:" \o marketId \o ":" \o outcome

getPositionSize(P, marketId, outcome) ==
    LET key == Key(marketId, outcome)
    IN  IF key \in DOMAIN P THEN P[key].shares ELSE 0

\* mutant: the plain mean of the two prices instead of the share-weighted one
addPosition_PlainMean(P, order, shares, price) ==
    LET key == Key(order.marketId, order.outcome)
    IN  IF key \in DOMAIN P
        THEN LET existing == P[key]
                 totalShares == existing.shares + shares
                 newAvgPrice == RDiv(RAdd(existing.avgPrice, RInt(price)), RInt(2))
             IN  [P EXCEPT ![key] =
                     [existing EXCEPT
                         !.shares = totalShares,
                         !.avgPrice = newAvgPrice,
                         !.currentPrice = price,
                         !.unrealizedPnL =
                             RMul(RSub(RInt(price), newAvgPrice), RInt(totalShares))]]
        ELSE P @@ (key :> [marketId |-> order.marketId,
                           tokenId |-> order.tokenId,
                           outcome |-> order.outcome,
                           shares |-> shares,
                           avgPrice |-> RInt(price),
                           currentPrice |-> price,
                           unrealizedPnL |-> RInt(0)])

addPosition(P, order, shares, price) ==
    LET key == Key(order.marketId, order.outcome)
    IN  IF key \in DOMAIN P
        THEN LET existing == P[key]
                 totalShares == existing.shares + shares
                 totalCost == RAdd(RMul(RInt(existing.shares), existing.avgPrice),
                                   RInt(shares * price))
                 newAvgPrice == RDiv(totalCost, RInt(totalShares))
             IN  [P EXCEPT ![key] =
                     [existing EXCEPT
                         !.shares = totalShares,
                         !.avgPrice = newAvgPrice,
                         !.currentPrice = price,
                         !.unrealizedPnL =
                             RMul(RSub(RInt(price), newAvgPrice), RInt(totalShares))]]
        ELSE P @@ (key :> [marketId |-> order.marketId,
                           tokenId |-> order.tokenId,
                           outcome |-> order.outcome,
                           shares |-> shares,
                           avgPrice |-> RInt(price),
                           currentPrice |-> price,
                           unrealizedPnL |-> RInt(0)])

\* mutant: the remainder is re-based on the sell price
reducePosition_Rebase(P, marketId, outcome, shares, sellPrice) ==
    LET key == Key(marketId, outcome)
    IN  IF key \notin DOMAIN P \/ P[key].shares < shares
        THEN [positions |-> P, success |-> FALSE, realizedPnL |-> RInt(0)]
        ELSE LET position == P[key]
                 realizedPnL == RMul(RSub(RInt(sellPrice), position.avgPrice),
                                     RInt(shares))
                 left == position.shares - shares
             IN  IF left <= 0
                 THEN [positions |-> [k \in DOMAIN P \ {key} |-> P[k]],
                       success |-> TRUE, realizedPnL |-> realizedPnL]
                 ELSE [positions |->
                          [P EXCEPT ![key] =
                              [position EXCEPT
                                  !.shares = left,
                                  !.avgPrice = RInt(sellPrice),
                                  !.currentPrice = sellPrice,
                                  !.unrealizedPnL = RInt(0)]],
                       success |-> TRUE, realizedPnL |-> realizedPnL]

\* mutant: "< 0" written for "<= 0", an emptied position stays in the map
reducePosition_KeepEmpty(P, marketId, outcome, shares, sellPrice) ==
    LET key == Key(marketId, outcome)
    IN  IF key \notin DOMAIN P \/ P[key].shares < shares
        THEN [positions |-> P, success |-> FALSE, realizedPnL |-> RInt(0)]
        ELSE LET position == P[key]
                 realizedPnL == RMul(RSub(RInt(sellPrice), position.avgPrice),
                                     RInt(shares))
                 left == position.shares - shares
             IN  IF left < 0
                 THEN [positions |-> [k \in DOMAIN P \ {key} |-> P[k]],
                       success |-> TRUE, realizedPnL |-> realizedPnL]
                 ELSE [positions |->
                          [P EXCEPT ![key] =
                              [position EXCEPT
                                  !.shares = left,
                                  !.currentPrice = sellPrice,
                                  !.unrealizedPnL =
                                      RMul(RSub(RInt(sellPrice), position.avgPrice),
                                           RInt(left))]],
                       success |-> TRUE, realizedPnL |-> realizedPnL]

\* mutant: the realized P&L is taken against the mark, not the average cost
reducePosition_PnLAtMark(P, marketId, outcome, shares, sellPrice) ==
    LET key == Key(marketId, outcome)
    IN  IF key \notin DOMAIN P \/ P[key].shares < shares
        THEN [positions |-> P, success |-> FALSE, realizedPnL |-> RInt(0)]
        ELSE LET position == P[key]
                 realizedPnL == RMul(RSub(RInt(sellPrice), RInt(position.currentPrice)),
                                     RInt(shares))
                 left == position.shares - shares
             IN  IF left <= 0
                 THEN [positions |-> [k \in DOMAIN P \ {key} |-> P[k]],
                       success |-> TRUE, realizedPnL |-> realizedPnL]
                 ELSE [positions |->
                          [P EXCEPT ![key] =
                              [position EXCEPT
                                  !.shares = left,
                                  !.currentPrice = sellPrice,
                                  !.unrealizedPnL =
                                      RMul(RSub(RInt(sellPrice), position.avgPrice),
                                           RInt(left))]],
                       success |-> TRUE, realizedPnL |-> realizedPnL]

reducePosition(P, marketId, outcome, shares, sellPrice) ==
    LET key == Key(marketId, outcome)
    IN  IF key \notin DOMAIN P \/ P[key].shares < shares
        THEN [positions |-> P, success |-> FALSE, realizedPnL |-> RInt(0)]
        ELSE LET position == P[key]
                 realizedPnL == RMul(RSub(RInt(sellPrice), position.avgPrice),
                                     RInt(shares))
                 left == position.shares - shares
             IN  IF left <= 0
                 THEN [positions |-> [k \in DOMAIN P \ {key} |-> P[k]],
                       success |-> TRUE, realizedPnL |-> realizedPnL]
                 ELSE [positions |->
                          [P EXCEPT ![key] =
                              [position EXCEPT
                                  !.shares = left,
                                  !.currentPrice = sellPrice,
                                  !.unrealizedPnL =
                                      RMul(RSub(RInt(sellPrice), position.avgPrice),
                                           RInt(left))]],
                       success |-> TRUE, realizedPnL |-> realizedPnL]

\* mutant: the mark is updated, unrealizedPnL is not recomputed
PositionTracker_updatePrices_StalePnL(P, prices) ==
    [k \in DOMAIN P |->
        IF P[k].tokenId \in DOMAIN prices
        THEN [P[k] EXCEPT !.currentPrice = prices[P[k].tokenId]]
        ELSE P[k]]

\* prices: a function from some token ids to prices (the Map of the source)
\* mutant: a position without an entry in the map is marked at 0
PositionTracker_updatePrices_MissingToZero(P, prices) ==
    [k \in DOMAIN P |->
        LET price == IF P[k].tokenId \in DOMAIN prices THEN prices[P[k].tokenId] ELSE 0
        IN  [P[k] EXCEPT
                !.currentPrice = price,
                !.unrealizedPnL =
                    RMul(RSub(RInt(price), P[k].avgPrice), RInt(P[k].shares))]]

PositionTracker_updatePrices(P, prices) ==
    [k \in DOMAIN P |->
        IF P[k].tokenId \in DOMAIN prices
        THEN LET price == prices[P[k].tokenId]
             IN  [P[k] EXCEPT
                     !.currentPrice = price,
                     !.unrealizedPnL =
                         RMul(RSub(RInt(price), P[k].avgPrice), RInt(P[k].shares))]
        ELSE P[k]]

\* The key order of the Map after one set() or delete() has turned it into
\* P2: a deleted key leaves the order, a new key goes to its end.
MapOrder(order, P2) ==
    LET kept == SelectSeq(order, LAMBDA k : k \in DOMAIN P2)
        new == DOMAIN P2 \ { order[i] : i \in DOMAIN order }
    IN  IF new = {} THEN kept ELSE Append(kept, CHOOSE k \in new : TRUE)

\* Array.from(positions.values())
getAllPositions(P, order) == [i \in DOMAIN order |-> P[order[i]]]

RECURSIVE SumValue(_, _)
SumValue(P, keys) ==
    IF keys = {} THEN 0
    ELSE LET k == CHOOSE x \in keys : TRUE
         IN  P[k].shares * P[k].currentPrice * FeeDen + SumValue(P, keys \ {k})

\* in money units
getTotalValue(P) == SumValue(P, DOMAIN P)

RECURSIVE SumUnrealized(_, _)
SumUnrealized(P, keys) ==
    IF keys = {} THEN RInt(0)
    ELSE LET k == CHOOSE x \in keys : TRUE
         IN  RAdd(P[k].unrealizedPnL, SumUnrealized(P, keys \ {k}))

\* in ticks times shares, as position.unrealizedPnL
getTotalUnrealizedPnL(P) == SumUnrealized(P, DOMAIN P)

getPositionCount(P) == Cardinality(DOMAIN P)

---------------------------------------------------------------------------
(* TradeExecutor (engine/trades.ts, first half) *)

\* the ledger as one value: what execute() reads and writes
Ledger(b, P, ord, h, id) ==
    [balance |-> b, positions |-> P, keyOrder |-> ord, history |-> h, nextId |-> id]

NoError == [kind |-> "", a |-> 0, b |-> 0]

\* Number.toFixed(2) of a money amount: the nearest cent, in cents
ToFixed2(units) ==
    IF units >= 0 THEN (units + FeeDen \div 2) \div FeeDen
    ELSE 0 - ((0 - units + FeeDen \div 2) \div FeeDen)

Result(L, success, error) ==
    [ledger |-> L,
     ret |-> [op |-> "execute", success |-> success, error |-> error,
              newBalance |-> IF success THEN <<getCash(L.balance)>> ELSE <<>>]]

\* mutant: the cash is charged before the affordability check
executeBuy_ChargeFirst(L, order) ==
    LET totalCost == order.shares * order.price * FeeDen
        fees == (totalCost * FeeNum) \div FeeDen
        totalWithFees == totalCost + fees
        charged == addCash(L.balance, 0 - totalWithFees)
    IN  IF ~canAfford(charged, 0)
        THEN Result([L EXCEPT !.balance = charged], FALSE,
                 [kind |-> "Insufficient funds",
                  a |-> ToFixed2(totalWithFees), b |-> ToFixed2(getCash(L.balance))])
        ELSE LET trade == [id |-> L.nextId,
                           marketId |-> order.marketId,
                           tokenId |-> order.tokenId,
                           outcome |-> order.outcome,
                           side |-> "BUY",
                           shares |-> order.shares,
                           price |-> order.price,
                           totalCost |-> totalCost,
                           fees |-> fees,
                           realizedPnL |-> <<>>]
                 P2 == addPosition(L.positions, order, order.shares, order.price)
             IN  Result(Ledger(charged,
                               P2, MapOrder(L.keyOrder, P2),
                               Append(L.history, trade),
                               L.nextId + 1),
                        TRUE, NoError)

\* mutant: the trade is written over the last entry of the history
executeBuy_Overwrite(L, order) ==
    LET totalCost == order.shares * order.price * FeeDen
        fees == (totalCost * FeeNum) \div FeeDen
        totalWithFees == totalCost + fees
        trade == [id |-> L.nextId, marketId |-> order.marketId,
                  tokenId |-> order.tokenId, outcome |-> order.outcome,
                  side |-> "BUY", shares |-> order.shares, price |-> order.price,
                  totalCost |-> totalCost, fees |-> fees, realizedPnL |-> <<>>]
        P2 == addPosition(L.positions, order, order.shares, order.price)
    IN  IF ~canAfford(L.balance, totalWithFees)
        THEN Result(L, FALSE,
                 [kind |-> "Insufficient funds",
                  a |-> ToFixed2(totalWithFees), b |-> ToFixed2(getCash(L.balance))])
        ELSE Result(Ledger(deductCash(L.balance, totalWithFees),
                           P2, MapOrder(L.keyOrder, P2),
                           IF L.history = <<>> THEN <<trade>>
                           ELSE [L.history EXCEPT ![Len(L.history)] = trade],
                           L.nextId + 1),
                    TRUE, NoError)

executeBuy(L, order) ==
    LET totalCost == order.shares * order.price * FeeDen
        fees == (totalCost * FeeNum) \div FeeDen
        totalWithFees == totalCost + fees
    IN  IF ~canAfford(L.balance, totalWithFees)
        THEN Result(L, FALSE,
                 [kind |-> "Insufficient funds",
                  a |-> ToFixed2(totalWithFees), b |-> ToFixed2(getCash(L.balance))])
        ELSE LET trade == [id |-> L.nextId,
                           marketId |-> order.marketId,
                           tokenId |-> order.tokenId,
                           outcome |-> order.outcome,
                           side |-> "BUY",
                           shares |-> order.shares,
                           price |-> order.price,
                           totalCost |-> totalCost,
                           fees |-> fees,
                           realizedPnL |-> <<>>]
                 P2 == addPosition(L.positions, order, order.shares, order.price)
             IN  Result(Ledger(deductCash(L.balance, totalWithFees),
                               P2, MapOrder(L.keyOrder, P2),
                               Append(L.history, trade),
                               L.nextId + 1),
                        TRUE, NoError)

executeSell(L, order) ==
    LET positionSize == getPositionSize(L.positions, order.marketId, order.outcome)
    IN  IF positionSize < order.shares
        THEN Result(L, FALSE,
                 [kind |-> "Insufficient shares", a |-> positionSize, b |-> order.shares])
        ELSE LET result == reducePosition(L.positions, order.marketId, order.outcome,
                                          order.shares, order.price)
             IN  IF ~result.success
                 THEN Result(L, FALSE,
                          [kind |-> "Failed to reduce position", a |-> 0, b |-> 0])
                 ELSE LET totalProceeds == order.shares * order.price * FeeDen
                          fees == (totalProceeds * FeeNum) \div FeeDen
                          netProceeds == totalProceeds - fees
                          trade == [id |-> L.nextId,
                                    marketId |-> order.marketId,
                                    tokenId |-> order.tokenId,
                                    outcome |-> order.outcome,
                                    side |-> "SELL",
                                    shares |-> order.shares,
                                    price |-> order.price,
                                    totalCost |-> totalProceeds,
                                    fees |-> fees,
                                    realizedPnL |-> <<result.realizedPnL>>]
                      IN  Result(Ledger(addCash(L.balance, netProceeds),
                                        result.positions,
                                        MapOrder(L.keyOrder, result.positions),
                                        Append(L.history, trade),
                                        L.nextId + 1),
                                 TRUE, NoError)

execute(L, order) ==
    IF order.side = "BUY" THEN executeBuy(L, order) ELSE executeSell(L, order)

\* the sum of t.realizedPnL || 0 over the history, in ticks times shares
RECURSIVE getTotalRealizedPnL(_)
getTotalRealizedPnL(h) ==
    IF h = <<>> THEN RInt(0)
    ELSE LET t == h[Len(h)]
         IN  RAdd(getTotalRealizedPnL(SubSeq(h, 1, Len(h) - 1)),
                  IF t.realizedPnL = <<>> THEN RInt(0) ELSE t.realizedPnL[1])

\* the sum of t.fees over the history, in money units
RECURSIVE getTotalFees(_)
getTotalFees(h) ==
    IF h = <<>> THEN 0
    ELSE getTotalFees(SubSeq(h, 1, Len(h) - 1)) + h[Len(h)].fees

---------------------------------------------------------------------------
(* PortfolioManager (engine/portfolio.ts) *)

PortfolioManager_updatePrices(L, prices) ==
    LET P == PositionTracker_updatePrices(L.positions, prices)
    IN  [L EXCEPT !.positions = P,
                  !.balance = updateTotalValue(L.balance, getTotalValue(P))]

EmptyPositions == [k \in {} |-> 0]

PortfolioManager_reset(L) ==
    [L EXCEPT !.balance = BalanceManager_reset(L.balance),
              !.positions = EmptyPositions,
              !.keyOrder = <<>>,
              !.history = <<>>]

getSummary(L) ==
    LET cash == getCash(L.balance)
        positionsValue == getTotalValue(L.positions)
    IN  [cash |-> cash,
         positionsValue |-> positionsValue,
         totalValue |-> cash + positionsValue,
         totalPnL |-> cash + positionsValue - L.balance.initialBalance,
         positionCount |-> getPositionCount(L.positions),
         tradeCount |-> Len(L.history)]

---------------------------------------------------------------------------
(* MarketAnalyzer (agent/analyzer.ts).  A market is its condition_id and its *)
(* two quotes in ticks; its tokens are TokenId(condition_id, "YES"/"NO").    *)
(* An analysis carries the confidence and the suggested dollar size as       *)
(* rationals.                                                                *)

Market(id, yes, no) ==
    [condition_id |-> id, yesPrice |-> yes, noPrice |-> no,
     tokens |-> <<[token_id |-> TokenId(id, "YES"), outcome |-> "YES"],
                  [token_id |-> TokenId(id, "NO"), outcome |-> "NO"]>>]

Analysis(market, signal, confidence, suggestedSize) ==
    [market |-> market, signal |-> signal, confidence |-> confidence,
     suggestedSize |-> suggestedSize]

calculateSize(strength) ==
    LET baseSize == 100
        scaledSize == RMul(RMul(RInt(baseSize), RAbs(strength)), RInt(5))
    IN  RMax(RInt(10), RMin(RInt(500), scaledSize))

analyzeMomentum(market) ==
    LET yesPrice == Num(market.yesPrice)
        noPrice == Num(market.noPrice)
    IN  IF RLess(Rat(6, 10), yesPrice)
        THEN Analysis(market, "BUY_YES", RMin(yesPrice, Rat(9, 10)),
                      calculateSize(RSub(yesPrice, Rat(5, 10))))
        ELSE IF RLess(Rat(6, 10), noPrice)
        THEN Analysis(market, "BUY_NO", RMin(noPrice, Rat(9, 10)),
                      calculateSize(RSub(noPrice, Rat(5, 10))))
        ELSE Analysis(market, "HOLD", Rat(3, 10), RInt(0))

analyzeContrarian(market) ==
    LET yesPrice == Num(market.yesPrice)
        noPrice == Num(market.noPrice)
    IN  IF RLess(yesPrice, Rat(25, 100)) /\ RLess(Rat(5, 100), yesPrice)
        THEN Analysis(market, "BUY_YES", Rat(6, 10),
                      calculateSize(RSub(Rat(25, 100), yesPrice)))
        ELSE IF RLess(noPrice, Rat(25, 100)) /\ RLess(Rat(5, 100), noPrice)
        THEN Analysis(market, "BUY_NO", Rat(6, 10),
                      calculateSize(RSub(Rat(25, 100), noPrice)))
        ELSE Analysis(market, "HOLD", Rat(3, 10), RInt(0))

analyzeValue(market) ==
    LET yesPrice == Num(market.yesPrice)
    IN  IF RLess(RAbs(RSub(yesPrice, Rat(5, 10))), Rat(15, 100))
        THEN Analysis(market,
                      IF RLess(yesPrice, Rat(5, 10)) THEN "BUY_YES" ELSE "BUY_NO",
                      Rat(55, 100), calculateSize(Rat(1, 10)))
        ELSE Analysis(market, "HOLD", Rat(3, 10), RInt(0))

\* random: the value Math.random() returned
analyzeRandom(market, random) ==
    IF RLess(random, Rat(3, 10))
    THEN Analysis(market, "BUY_YES", Rat(5, 10), calculateSize(Rat(2, 10)))
    ELSE IF RLess(random, Rat(6, 10))
    THEN Analysis(market, "BUY_NO", Rat(5, 10), calculateSize(Rat(2, 10)))
    ELSE Analysis(market, "HOLD", Rat(5, 10), RInt(0))

analyzeBalanced(market) ==
    LET yesPrice == Num(market.yesPrice)
        noPrice == Num(market.noPrice)
    IN  IF RLess(Rat(7, 10), yesPrice)
        THEN Analysis(market, "BUY_YES", Rat(7, 10),
                      calculateSize(RSub(yesPrice, Rat(5, 10))))
        ELSE IF RLess(Rat(7, 10), noPrice)
        THEN Analysis(market, "BUY_NO", Rat(7, 10),
                      calculateSize(RSub(noPrice, Rat(5, 10))))
        ELSE IF RLess(yesPrice, Rat(2, 10)) /\ RLess(Rat(5, 100), yesPrice)
        THEN Analysis(market, "BUY_YES", Rat(5, 10), calculateSize(Rat(15, 100)))
        ELSE IF RLess(noPrice, Rat(2, 10)) /\ RLess(Rat(5, 100), noPrice)
        THEN Analysis(market, "BUY_NO", Rat(5, 10), calculateSize(Rat(15, 100)))
        ELSE Analysis(market, "HOLD", Rat(4, 10), RInt(0))

analyze(market, strategy, random) ==
    IF strategy = "llm" THEN Analysis(market, "HOLD", RInt(0), RInt(0))
    ELSE CASE strategy = "momentum" -> analyzeMomentum(market)
           [] strategy = "contrarian" -> analyzeContrarian(market)
           [] strategy = "value" -> analyzeValue(market)
           [] strategy = "random" -> analyzeRandom(market, random)
           [] strategy = "balanced" -> analyzeBalanced(market)
           [] OTHER -> analyzeBalanced(market)

\* response: what llm.analyzeMarket resolved to, or "error" when it rejected
analyzeLLM(market, response) ==
    IF response.action = "error"
    THEN Analysis(market, "HOLD", RInt(0), RInt(0))
    ELSE Analysis(market,
                  IF response.action = "BUY_YES" THEN "BUY_YES"
                  ELSE IF response.action = "BUY_NO" THEN "BUY_NO" ELSE "HOLD",
                  response.confidence,
                  IF RLess(Rat(6, 10), response.confidence) THEN RInt(200) ELSE RInt(100))

\* randoms[i]: the Math.random() drawn for markets[i] (read by "random" only)
analyzeMarkets(cached, strategy, randoms) ==
    [i \in DOMAIN cached |-> analyze(cached[i], strategy, randoms[i])]

\* Array.prototype.sort is stable: x goes before the first element that the
\* comparator (b.confidence - a.confidence) puts after it.
RECURSIVE InsertByConfidence(_, _)
InsertByConfidence(sorted, x) ==
    IF sorted = <<>> THEN <<x>>
    ELSE IF RLess(Head(sorted).confidence, x.confidence) THEN <<x>> \o sorted
    ELSE <<Head(sorted)>> \o InsertByConfidence(Tail(sorted), x)

RECURSIVE SortByConfidence(_)
SortByConfidence(seq) ==
    IF seq = <<>> THEN <<>>
    ELSE InsertByConfidence(SortByConfidence(SubSeq(seq, 1, Len(seq) - 1)), seq[Len(seq)])

Slice(seq, count) == SubSeq(seq, 1, IF Len(seq) < count THEN Len(seq) ELSE count)

getTopOpportunities(analyses, count) ==
    Slice(SortByConfidence(SelectSeq(analyses, LAMBDA a : a.signal # "HOLD")), count)

---------------------------------------------------------------------------
(* RiskManager (agent/risk.ts).  cfg holds maxPositionSize in dollars,     *)
(* maxPositions, and minConfidence as a rational.                          *)

QuotedPrice(analysis) ==
    IF analysis.signal \in {"BUY_YES", "SELL_YES"}
    THEN analysis.market.yesPrice ELSE analysis.market.noPrice

\* positions.find(p => p.marketId === id): the first in iteration order
FindByMarket(posArr, id) ==
    LET hits == SelectSeq(posArr, LAMBDA q : q.marketId = id)
    IN  IF hits = <<>> THEN <<>> ELSE <<Head(hits)>>

\* mutant: the confidence check comes first
canTakeNewPosition_ConfidenceFirst(cfg, analysis, posArr, portfolio) ==
    LET existingPosition == FindByMarket(posArr, analysis.market.condition_id)
        estimatedCost == RMul(analysis.suggestedSize, Num(QuotedPrice(analysis)))
    IN  IF RLess(analysis.confidence, cfg.minConfidence)
        THEN [allowed |-> FALSE, reason |-> "Confidence below threshold"]
        ELSE IF Len(posArr) >= cfg.maxPositions
        THEN [allowed |-> FALSE, reason |-> "Max positions reached"]
        ELSE IF /\ existingPosition # <<>>
                /\ existingPosition[1].shares * existingPosition[1].currentPrice
                       >= cfg.maxPositionSize * PriceScale
        THEN [allowed |-> FALSE, reason |-> "Max position size reached for this market"]
        ELSE IF RLess(RMul(Rat(portfolio.cash, Dollar), Rat(2, 10)), estimatedCost)
        THEN [allowed |-> FALSE, reason |-> "Trade too large relative to available cash"]
        ELSE [allowed |-> TRUE, reason |-> "Trade passes risk checks"]

\* mutant: the confidence is not checked
canTakeNewPosition_NoConfidence(cfg, analysis, posArr, portfolio) ==
    LET existingPosition == FindByMarket(posArr, analysis.market.condition_id)
        estimatedCost == RMul(analysis.suggestedSize, Num(QuotedPrice(analysis)))
    IN  IF Len(posArr) >= cfg.maxPositions
        THEN [allowed |-> FALSE, reason |-> "Max positions reached"]
        ELSE IF /\ existingPosition # <<>>
                /\ existingPosition[1].shares * existingPosition[1].currentPrice
                       >= cfg.maxPositionSize * PriceScale
        THEN [allowed |-> FALSE, reason |-> "Max position size reached for this market"]
        ELSE IF RLess(RMul(Rat(portfolio.cash, Dollar), Rat(2, 10)), estimatedCost)
        THEN [allowed |-> FALSE, reason |-> "Trade too large relative to available cash"]
        ELSE [allowed |-> TRUE, reason |-> "Trade passes risk checks"]

\* mutant: a confidence above the threshold is rejected
canTakeNewPosition_ConfidenceFlipped(cfg, analysis, posArr, portfolio) ==
    LET existingPosition == FindByMarket(posArr, analysis.market.condition_id)
        estimatedCost == RMul(analysis.suggestedSize, Num(QuotedPrice(analysis)))
    IN  IF Len(posArr) >= cfg.maxPositions
        THEN [allowed |-> FALSE, reason |-> "Max positions reached"]
        ELSE IF /\ existingPosition # <<>>
                /\ existingPosition[1].shares * existingPosition[1].currentPrice
                       >= cfg.maxPositionSize * PriceScale
        THEN [allowed |-> FALSE, reason |-> "Max position size reached for this market"]
        ELSE IF RLess(cfg.minConfidence, analysis.confidence)
        THEN [allowed |-> FALSE, reason |-> "Confidence below threshold"]
        ELSE IF RLess(RMul(Rat(portfolio.cash, Dollar), Rat(2, 10)), estimatedCost)
        THEN [allowed |-> FALSE, reason |-> "Trade too large relative to available cash"]
        ELSE [allowed |-> TRUE, reason |-> "Trade passes risk checks"]

\* mutant: ">" written for ">=" in the check of the position count
canTakeNewPosition_CountStrict(cfg, analysis, posArr, portfolio) ==
    LET existingPosition == FindByMarket(posArr, analysis.market.condition_id)
        \* dollars, as a rational
        estimatedCost == RMul(analysis.suggestedSize, Num(QuotedPrice(analysis)))
    IN  IF Len(posArr) > cfg.maxPositions
        THEN [allowed |-> FALSE, reason |-> "Max positions reached"]
        ELSE IF /\ existingPosition # <<>>
                /\ existingPosition[1].shares * existingPosition[1].currentPrice
                       >= cfg.maxPositionSize * PriceScale
        THEN [allowed |-> FALSE, reason |-> "Max position size reached for this market"]
        ELSE IF RLess(analysis.confidence, cfg.minConfidence)
        THEN [allowed |-> FALSE, reason |-> "Confidence below threshold"]
        ELSE IF RLess(RMul(Rat(portfolio.cash, Dollar), Rat(2, 10)), estimatedCost)
        THEN [allowed |-> FALSE, reason |-> "Trade too large relative to available cash"]
        ELSE [allowed |-> TRUE, reason |-> "Trade passes risk checks"]

canTakeNewPosition(cfg, analysis, posArr, portfolio) ==
    LET existingPosition == FindByMarket(posArr, analysis.market.condition_id)
        \* dollars, as a rational
        estimatedCost == RMul(analysis.suggestedSize, Num(QuotedPrice(analysis)))
    IN  IF Len(posArr) >= cfg.maxPositions
        THEN [allowed |-> FALSE, reason |-> "Max positions reached"]
        ELSE IF /\ existingPosition # <<>>
                /\ existingPosition[1].shares * existingPosition[1].currentPrice
                       >= cfg.maxPositionSize * PriceScale
        THEN [allowed |-> FALSE, reason |-> "Max position size reached for this market"]
        ELSE IF RLess(analysis.confidence, cfg.minConfidence)
        THEN [allowed |-> FALSE, reason |-> "Confidence below threshold"]
        ELSE IF RLess(RMul(Rat(portfolio.cash, Dollar), Rat(2, 10)), estimatedCost)
        THEN [allowed |-> FALSE, reason |-> "Trade too large relative to available cash"]
        ELSE [allowed |-> TRUE, reason |-> "Trade passes risk checks"]

\* mutant: the size is not capped by 10% of the cash
calculatePositionSize_NoCapitalCap(cfg, analysis, portfolio) ==
    LET maxSizeByConfig == RInt(cfg.maxPositionSize * Dollar)
        confidenceMultiplier == RMul(analysis.confidence, analysis.confidence)
        scaledSize == RMul(RMul(analysis.suggestedSize, confidenceMultiplier), RInt(Dollar))
    IN  RMin(scaledSize, maxSizeByConfig)

\* the position size in money units, as a rational
calculatePositionSize(cfg, analysis, portfolio) ==
    LET maxSizeByConfig == RInt(cfg.maxPositionSize * Dollar)
        maxSizeByCapital == RMul(RInt(portfolio.cash), Rat(1, 10))
        confidenceMultiplier == RMul(analysis.confidence, analysis.confidence)
        scaledSize == RMul(RMul(analysis.suggestedSize, confidenceMultiplier), RInt(Dollar))
    IN  RMin(RMin(scaledSize, maxSizeByConfig), maxSizeByCapital)

\* mutant: the price limits are checked before the profit and the loss
shouldClosePosition_PriceFirst(position) ==
    LET profitPercent ==
            RMul(RDiv(position.unrealizedPnL,
                      RMul(RInt(position.shares), position.avgPrice)),
                 RInt(100))
    IN  IF RLess(Rat(95, 100), Num(position.currentPrice))
        THEN [shouldClose |-> TRUE, reason |-> "Near-certain outcome, taking profit"]
        ELSE IF RLess(Num(position.currentPrice), Rat(2, 100))
        THEN [shouldClose |-> TRUE, reason |-> "Position near worthless, cutting loss"]
        ELSE IF RLess(RInt(50), profitPercent)
        THEN [shouldClose |-> TRUE, reason |-> "Take profit"]
        ELSE IF RLess(profitPercent, RInt(0 - 30))
        THEN [shouldClose |-> TRUE, reason |-> "Stop loss"]
        ELSE [shouldClose |-> FALSE, reason |-> "Position within risk parameters"]

\* mutant: the near-certain limit is 0.98
shouldClosePosition_Ceiling98(position) ==
    LET profitPercent ==
            RMul(RDiv(position.unrealizedPnL,
                      RMul(RInt(position.shares), position.avgPrice)),
                 RInt(100))
    IN  IF RLess(RInt(50), profitPercent)
        THEN [shouldClose |-> TRUE, reason |-> "Take profit"]
        ELSE IF RLess(profitPercent, RInt(0 - 30))
        THEN [shouldClose |-> TRUE, reason |-> "Stop loss"]
        ELSE IF RLess(Rat(98, 100), Num(position.currentPrice))
        THEN [shouldClose |-> TRUE, reason |-> "Near-certain outcome, taking profit"]
        ELSE IF RLess(Num(position.currentPrice), Rat(2, 100))
        THEN [shouldClose |-> TRUE, reason |-> "Position near worthless, cutting loss"]
        ELSE [shouldClose |-> FALSE, reason |-> "Position within risk parameters"]

shouldClosePosition(position) ==
    LET profitPercent ==
            RMul(RDiv(position.unrealizedPnL,
                      RMul(RInt(position.shares), position.avgPrice)),
                 RInt(100))
    IN  IF RLess(RInt(50), profitPercent)
        THEN [shouldClose |-> TRUE, reason |-> "Take profit"]
        ELSE IF RLess(profitPercent, RInt(0 - 30))
        THEN [shouldClose |-> TRUE, reason |-> "Stop loss"]
        ELSE IF RLess(Rat(95, 100), Num(position.currentPrice))
        THEN [shouldClose |-> TRUE, reason |-> "Near-certain outcome, taking profit"]
        ELSE IF RLess(Num(position.currentPrice), Rat(2, 100))
        THEN [shouldClose |-> TRUE, reason |-> "Position near worthless, cutting loss"]
        ELSE [shouldClose |-> FALSE, reason |-> "Position within risk parameters"]

---------------------------------------------------------------------------
(* TradingAgent (agent/agent.ts): the synchronous code between two awaits. *)
(* The code runs on one thread, so what lies between two awaits on I/O is  *)
(* one step: an await on a promise that is already settled (checkExits,    *)
(* analyzeMarkets when it does no I/O) resumes in the same turn of the     *)
(* event loop, before any timer, key press or reply is handled.            *)
(* S is what that code reads and writes:                                   *)
(*   ledger, status, markets   the agent's objects;                        *)
(*   cyc                       the runCycle() call that is running;        *)
(*   did                       what this step did: whether it threw, the   *)
(*                             exit signals it saw and the SELL orders it  *)
(*                             sent for them, whether it reached the loop  *)
(*                             over the opportunities, how many there      *)
(*                             were, the decisions it made in order, and   *)
(*                             the orders executeTrade sent.               *)

DEFAULT_CONFIG ==
    [strategy |-> "balanced", maxPositionSize |-> 10000, maxPositions |-> 10,
     minConfidence |-> Rat(5, 10), autoTrade |-> FALSE, riskLevel |-> 5]

NewStatus(cfg) ==
    [isRunning |-> FALSE, strategy |-> cfg.strategy, marketsAnalyzed |-> 0,
     opportunitiesFound |-> 0, tradesExecuted |-> 0, riskLevel |-> cfg.riskLevel]

Cycle(pc, tokenIds, queue, llmAnalyses) ==
    [pc |-> pc, tokenIds |-> tokenIds, queue |-> queue, llmAnalyses |-> llmAnalyses]

Did0 ==
    [threw |-> FALSE, flagged |-> 0, exitOrders |-> 0, traded |-> FALSE,
     opportunities |-> 0, decisions |-> <<>>, executed |-> 0, onTrade |-> 0,
     fills |-> <<>>, found |-> <<>>]

FindToken(market, outcome) ==
    LET hits == SelectSeq(market.tokens, LAMBDA t : t.outcome = outcome)
    IN  IF hits = <<>> THEN <<>> ELSE <<Head(hits)>>

makeDecision(L, cfg, analysis) ==
    LET posArr == getAllPositions(L.positions, L.keyOrder)
        summary == getSummary(L)
        riskCheck == canTakeNewPosition(cfg, analysis, posArr, summary)
        size == calculatePositionSize(cfg, analysis, summary)
        isYes == analysis.signal \in {"BUY_YES", "SELL_YES"}
        outcome == IF isYes THEN "YES" ELSE "NO"
        token == FindToken(analysis.market, outcome)
        price == IF isYes THEN analysis.market.yesPrice ELSE analysis.market.noPrice
    IN  IF ~riskCheck.allowed
        THEN [action |-> "SKIP", reason |-> riskCheck.reason, order |-> <<>>]
        ELSE IF RLess(size, RInt(10 * Dollar))
        THEN [action |-> "SKIP", reason |-> "Position size too small", order |-> <<>>]
        ELSE IF token = <<>>
        THEN [action |-> "SKIP", reason |-> "Could not find token for outcome",
              order |-> <<>>]
        ELSE [action |-> "EXECUTE", reason |-> "",
              order |-> <<[marketId |-> analysis.market.condition_id,
                           tokenId |-> token[1].token_id,
                           outcome |-> outcome,
                           side |-> "BUY",
                           shares |-> RFloor(RDiv(size, RInt(price * FeeDen))),
                           price |-> price]>>]

\* mutant: a manual BUY of 200 YES of m1 at 0.50 is filled between the
\* decision and the executor's call
executeTrade_AfterManual(S, decision) ==
    IF decision.action # "EXECUTE" \/ decision.order = <<>>
    THEN S
    ELSE LET manual == [marketId |-> "m1", tokenId |-> TokenId("m1", "YES"),
                        outcome |-> "YES", side |-> "BUY",
                        shares |-> 200, price |-> 50]
             r == execute(execute(S.ledger, manual).ledger, decision.order[1])
         IN  IF r.ret.success
             THEN [S EXCEPT !.ledger = r.ledger,
                            !.status.tradesExecuted = @ + 1,
                            !.did.executed = @ + 1,
                            !.did.onTrade = @ + 1]
             ELSE [S EXCEPT !.did.executed = @ + 1]

executeTrade(S, decision) ==
    IF decision.action # "EXECUTE" \/ decision.order = <<>>
    THEN S
    ELSE LET r == execute(S.ledger, decision.order[1])
         IN  IF r.ret.success
             THEN [S EXCEPT !.ledger = r.ledger,
                            !.status.tradesExecuted = @ + 1,
                            !.did.executed = @ + 1,
                            !.did.onTrade = @ + 1]
             ELSE [S EXCEPT !.did.executed = @ + 1]

\* mutant: the loop goes on after a trade
RECURSIVE tradeOpportunities_NoBreak(_, _, _, _)
tradeOpportunities_NoBreak(S, cfg, opportunities, i) ==
    IF i > Len(opportunities) THEN S
    ELSE LET decision == makeDecision(S.ledger, cfg, opportunities[i])
             S1 == [S EXCEPT !.did.decisions = Append(@, decision.action)]
         IN  IF decision.action = "EXECUTE" /\ cfg.autoTrade
             THEN tradeOpportunities_NoBreak(executeTrade(S1, decision), cfg,
                                             opportunities, i + 1)
             ELSE tradeOpportunities_NoBreak(S1, cfg, opportunities, i + 1)

\* runCycle's loop over the opportunities, from the i-th on
RECURSIVE tradeOpportunities(_, _, _, _)
tradeOpportunities(S, cfg, opportunities, i) ==
    IF i > Len(opportunities) THEN S
    ELSE LET decision == makeDecision(S.ledger, cfg, opportunities[i])
             S1 == [S EXCEPT !.did.decisions = Append(@, decision.action)]
         IN  IF decision.action = "EXECUTE" /\ cfg.autoTrade
             THEN executeTrade(
                      [S1 EXCEPT !.did.fills =
                                     Append(@, [checked |-> S.ledger,
                                                order |-> decision.order[1]])],
                      decision)
             ELSE tradeOpportunities(S1, cfg, opportunities, i + 1)

\* mutant: an exit signal is traded whatever autoTrade says
RECURSIVE checkExits_Ungated(_, _, _, _)
checkExits_Ungated(S, cfg, posArr, i) ==
    IF i > Len(posArr) THEN S
    ELSE LET position == posArr[i]
             exitCheck == shouldClosePosition(position)
             r == execute(S.ledger,
                          [marketId |-> position.marketId,
                           tokenId |-> position.tokenId,
                           outcome |-> position.outcome,
                           side |-> "SELL",
                           shares |-> position.shares,
                           price |-> position.currentPrice])
         IN  IF ~exitCheck.shouldClose
             THEN checkExits_Ungated(S, cfg, posArr, i + 1)
             ELSE checkExits_Ungated(
                      [S EXCEPT !.ledger = r.ledger,
                                !.did.flagged = @ + 1,
                                !.did.exitOrders = @ + 1],
                      cfg, posArr, i + 1)

\* mutant: the loop ends after the first position it sells
RECURSIVE checkExits_FirstOnly(_, _, _, _)
checkExits_FirstOnly(S, cfg, posArr, i) ==
    IF i > Len(posArr) THEN S
    ELSE LET position == posArr[i]
             exitCheck == shouldClosePosition(position)
             r == execute(S.ledger,
                          [marketId |-> position.marketId,
                           tokenId |-> position.tokenId,
                           outcome |-> position.outcome,
                           side |-> "SELL",
                           shares |-> position.shares,
                           price |-> position.currentPrice])
         IN  IF ~exitCheck.shouldClose
             THEN checkExits_FirstOnly(S, cfg, posArr, i + 1)
             ELSE IF ~cfg.autoTrade
             THEN checkExits_FirstOnly([S EXCEPT !.did.flagged = @ + 1],
                                       cfg, posArr, i + 1)
             ELSE [S EXCEPT !.ledger = r.ledger,
                            !.did.flagged = @ + 1,
                            !.did.exitOrders = @ + 1]

\* checkExits' loop over posArr = getPositions(), from the i-th on
RECURSIVE checkExits(_, _, _, _)
checkExits(S, cfg, posArr, i) ==
    IF i > Len(posArr) THEN S
    ELSE LET position == posArr[i]
             exitCheck == shouldClosePosition(position)
             r == execute(S.ledger,
                          [marketId |-> position.marketId,
                           tokenId |-> position.tokenId,
                           outcome |-> position.outcome,
                           side |-> "SELL",
                           shares |-> position.shares,
                           price |-> position.currentPrice])
         IN  IF ~exitCheck.shouldClose
             THEN checkExits(S, cfg, posArr, i + 1)
             ELSE IF ~cfg.autoTrade
             THEN checkExits([S EXCEPT !.did.flagged = @ + 1], cfg, posArr, i + 1)
             ELSE checkExits(
                      [S EXCEPT !.ledger = r.ledger,
                                !.did.flagged = @ + 1,
                                !.did.exitOrders = @ + 1,
                                !.did.fills =
                                    Append(@, [checked |-> S.ledger,
                                               order |-> [marketId |-> position.marketId,
                                                          tokenId |-> position.tokenId,
                                                          outcome |-> position.outcome,
                                                          side |-> "SELL",
                                                          shares |-> position.shares,
                                                          price |-> position.currentPrice]])],
                      cfg, posArr, i + 1)

\* runCycle after `await this.analyzeMarkets()`: the opportunities are traded
\* and the call returns
tradePhase(S, cfg, opportunities) ==
    LET S1 == [S EXCEPT !.did.traded = TRUE,
                        !.did.opportunities = Len(opportunities),
                        !.did.found = opportunities]
    IN  [tradeOpportunities(S1, cfg, opportunities, 1) EXCEPT !.cyc.pc = "done"]

\* the end of analyzeMarkets, and on into runCycle
finishAnalysis(S, cfg, opportunities) ==
    tradePhase([S EXCEPT !.status.marketsAnalyzed = Len(S.markets),
                         !.status.opportunitiesFound = Len(opportunities)],
               cfg, opportunities)

\* |yesPrice - 0.5| of a market
Uncertainty(market) == RAbs(RSub(Num(market.yesPrice), Rat(5, 10)))

RECURSIVE InsertByUncertainty(_, _)
InsertByUncertainty(sorted, x) ==
    IF sorted = <<>> THEN <<x>>
    ELSE IF RLess(Uncertainty(x), Uncertainty(Head(sorted))) THEN <<x>> \o sorted
    ELSE <<Head(sorted)>> \o InsertByUncertainty(Tail(sorted), x)

RECURSIVE SortByUncertainty(_)
SortByUncertainty(seq) ==
    IF seq = <<>> THEN <<>>
    ELSE InsertByUncertainty(SortByUncertainty(SubSeq(seq, 1, Len(seq) - 1)),
                             seq[Len(seq)])

\* the markets the llm strategy asks about, in the order it asks
LlmQueue(cached) ==
    LET sortedMarkets ==
            Slice(SortByUncertainty(
                      SelectSeq(cached,
                                LAMBDA m : /\ RLess(Rat(1, 10), Num(m.yesPrice))
                                           /\ RLess(Num(m.yesPrice), Rat(9, 10)))),
                  10)
    IN  Slice(sortedMarkets, 5)

\* analyzeMarkets once this.markets is there, up to its next await
analyzeCached(S, cfg, randoms) ==
    IF cfg.strategy = "llm"
    THEN IF LlmQueue(S.markets) = <<>>
         THEN finishAnalysis(S, cfg, <<>>)
         ELSE [S EXCEPT !.cyc = Cycle("llm", <<>>, LlmQueue(S.markets), <<>>)]
    ELSE finishAnalysis(S, cfg,
             getTopOpportunities(analyzeMarkets(S.markets, cfg.strategy, randoms), 10))

\* runCycle from checkExits on, up to its next await
exitsAndAnalysis(S, cfg, randoms) ==
    LET S1 == checkExits(S, cfg, getAllPositions(S.ledger.positions, S.ledger.keyOrder), 1)
    IN  IF Len(S1.markets) = 0
        THEN [S1 EXCEPT !.cyc = Cycle("refreshAgain", <<>>, <<>>, <<>>)]
        ELSE analyzeCached(S1, cfg, randoms)

\* runCycle after `await this.refreshMarkets()` returned fetched
afterRefresh(S, cfg, fetched, randoms) ==
    LET S1 == [S EXCEPT !.markets = fetched]
        posArr == getAllPositions(S.ledger.positions, S.ledger.keyOrder)
        tokenIds == [i \in DOMAIN posArr |-> posArr[i].tokenId]
    IN  IF Len(tokenIds) > 0
        THEN [S1 EXCEPT !.cyc = Cycle("prices", tokenIds, <<>>, <<>>)]
        ELSE exitsAndAnalysis(S1, cfg, randoms)

\* runCycle after `await this.client.getPrices(tokenIds)` returned prices
afterPrices(S, cfg, prices, randoms) ==
    exitsAndAnalysis([S EXCEPT !.ledger = PortfolioManager_updatePrices(@, prices)],
                     cfg, randoms)

\* analyzeMarkets after its own `await this.refreshMarkets()` returned fetched
afterRefreshAgain(S, cfg, fetched, randoms) ==
    analyzeCached([S EXCEPT !.markets = fetched], cfg, randoms)

\* analyzeMarkets after `await this.analyzer.analyzeLLM(market)` of the queue's head
afterLLM(S, cfg, response) ==
    LET analysis == analyzeLLM(Head(S.cyc.queue), response)
        llmAnalyses == IF analysis.signal # "HOLD"
                       THEN Append(S.cyc.llmAnalyses, analysis)
                       ELSE S.cyc.llmAnalyses
    IN  IF Tail(S.cyc.queue) = <<>>
        THEN finishAnalysis(S, cfg, llmAnalyses)
        ELSE [S EXCEPT !.cyc = Cycle("llm", <<>>, Tail(S.cyc.queue), llmAnalyses)]

---------------------------------------------------------------------------
(* The ledger driven through its public API *)

Cur == Ledger(balance, positions, keyOrder, history, nextId)

Install(L) ==
    /\ balance' = L.balance
    /\ positions' = L.positions
    /\ keyOrder' = L.keyOrder
    /\ history' = L.history
    /\ nextId' = L.nextId

Order(m, o, side, shares, price) ==
    [marketId |-> m, tokenId |-> TokenId(m, o), outcome |-> o,
     side |-> side, shares |-> shares, price |-> price]

Orders ==
    { Order(m, o, side, s, p) :
        m \in OrderMarkets, o \in Outcomes, side \in {"BUY", "SELL"},
        s \in ShareSizes, p \in Prices }

Tokens == { TokenId(m, o) : m \in OrderMarkets, o \in Outcomes }

\* every Map from some of the tokens to a price
PriceMaps == { [t \in T |-> f[t]] : T \in SUBSET Tokens, f \in [Tokens -> Prices] }

\* new PortfolioManager(initial), new TradingAgent(portfolio, cfg)
New(initial, cfg) ==
    /\ balance = NewBalance(initial * Dollar)
    /\ positions = EmptyPositions
    /\ keyOrder = <<>>
    /\ history = <<>>
    /\ nextId = 1
    /\ ret = [op |-> "new", success |-> TRUE,
              error |-> NoError, newBalance |-> <<>>]
    /\ config = cfg
    /\ status = NewStatus(cfg)
    /\ markets = <<>>
    /\ cycles = <<>>
    /\ intervalId = 0
    /\ timers = {}
    /\ store = <<>>

Init == New(InitialBalance, DEFAULT_CONFIG)

\* executor.execute(order); at most MaxExec orders are filled in a run
Execute(order) ==
    \E r \in {execute(Cur, order)} :
        /\ r.ledger.nextId <= MaxExec + 1
        /\ Install(r.ledger)
        /\ ret' = r.ret
        /\ UNCHANGED agent

UpdatePrices(prices) ==
    /\ \E L \in {PortfolioManager_updatePrices(Cur, prices)} : Install(L)
    /\ ret' = [op |-> "updatePrices", success |-> TRUE,
               error |-> NoError, newBalance |-> <<>>]
    /\ UNCHANGED agent

Reset ==
    /\ Install(PortfolioManager_reset(Cur))
    /\ ret' = [op |-> "reset", success |-> TRUE,
               error |-> NoError, newBalance |-> <<>>]
    /\ UNCHANGED agent

Next ==
    \/ \E order \in Orders : Execute(order)
    \/ \E prices \in PriceMaps : UpdatePrices(prices)
    \/ Reset

Spec == Init /\ [][Next]_vars

---------------------------------------------------------------------------
(* The agent driven by the calls of runCycle, by the autoTrade switch and  *)
(* by the replies of the Polymarket client and of the LLM                  *)

AgentStrategies == {"balanced", "value", "llm"}

AgentPrices == {50, 80}

Snapshots ==
    { <<>>,
      <<Market("m1", 80, 20), Market("m2", 90, 10)>>,
      <<Market("m1", 50, 50), Market("m2", 10, 90)>> }

LlmResponses ==
    { [action |-> "BUY_YES", confidence |-> Rat(8, 10)],
      [action |-> "HOLD", confidence |-> Rat(5, 10)],
      [action |-> "error", confidence |-> Rat(0, 1)] }

RandomDraws == {Rat(1, 10), Rat(4, 10), Rat(8, 10)}

\* the values Math.random() returns to an analysis of cached under cfg
Randoms(cfg, cached) ==
    IF cfg.strategy = "random"
    THEN [DOMAIN cached -> RandomDraws]
    ELSE {[i \in DOMAIN cached |-> Rat(0, 1)]}

\* what client.getPrices(tokenIds) may resolve to: a price for every id asked
PriceReplies(tokenIds) ==
    [{ tokenIds[i] : i \in DOMAIN tokenIds } -> AgentPrices]

Running(c) ==
    [ledger |-> Cur, status |-> status, markets |-> markets,
     cyc |-> cycles[c], did |-> Did0]

Without(seq, c) == [i \in 1..(Len(seq) - 1) |-> IF i < c THEN seq[i] ELSE seq[i + 1]]

\* the continuation of cycle c ran from its await `at` and left S
Resume(c, at, S) ==
    /\ S.ledger.nextId <= MaxExec + 1
    /\ Install(S.ledger)
    /\ status' = S.status
    /\ markets' = S.markets
    /\ cycles' = IF S.cyc.pc = "done" THEN Without(cycles, c)
                 ELSE [cycles EXCEPT ![c] = S.cyc]
    /\ ret' = [op |-> "runCycle", at |-> at, autoTrade |-> config.autoTrade,
               did |-> S.did]
    /\ UNCHANGED <<config, timer, store>>

InitAgent ==
    \E strategy \in AgentStrategies :
        New(AgentInitialBalance, [DEFAULT_CONFIG EXCEPT !.strategy = strategy])

\* runCycle() is called, by start() or by the interval's callback: it runs
\* into refreshMarkets' await
RunCycle ==
    /\ Len(cycles) < MaxInFlight
    /\ cycles' = Append(cycles, Cycle("refresh", <<>>, <<>>, <<>>))
    /\ ret' = [op |-> "call"]
    /\ UNCHANGED <<ledger, config, status, markets, timer, store>>

\* agent.updateConfig({ autoTrade: !config.autoTrade })
SetAutoTrade ==
    /\ config' = [config EXCEPT !.autoTrade = ~config.autoTrade]
    /\ status' = [status EXCEPT !.strategy = config'.strategy]
    /\ ret' = [op |-> "call"]
    /\ UNCHANGED <<ledger, markets, cycles, timer, store>>

\* client.getEnrichedMarketsFromGamma resolves
MarketsReturn(c, fetched) ==
    /\ cycles[c].pc \in {"refresh", "refreshAgain"}
    /\ \E randoms \in Randoms(config, fetched) :
           \E S \in {IF cycles[c].pc = "refresh"
                     THEN afterRefresh(Running(c), config, fetched, randoms)
                     ELSE afterRefreshAgain(Running(c), config, fetched, randoms)} :
               Resume(c, cycles[c].pc, S)

\* mutant: the failure of a cycle stops the agent
MarketsFail_Stops(c) ==
    /\ cycles[c].pc \in {"refresh", "refreshAgain"}
    /\ \E S \in {[Running(c) EXCEPT !.cyc.pc = "done", !.did.threw = TRUE,
                                     !.status.isRunning = FALSE]} :
           Resume(c, cycles[c].pc, S)

\* client.getEnrichedMarketsFromGamma rejects: refreshMarkets rethrows, and
\* runCycle's catch ends the cycle
MarketsFail(c) ==
    /\ cycles[c].pc \in {"refresh", "refreshAgain"}
    /\ \E S \in {[Running(c) EXCEPT !.cyc.pc = "done", !.did.threw = TRUE]} :
           Resume(c, cycles[c].pc, S)

\* client.getPrices resolves (it never rejects)
PricesReturn(c, prices) ==
    /\ cycles[c].pc = "prices"
    /\ \E randoms \in Randoms(config, markets) :
           \E S \in {afterPrices(Running(c), config, prices, randoms)} :
               Resume(c, "prices", S)

\* analyzeLLM resolves (it never rejects)
LLMReturn(c, response) ==
    /\ cycles[c].pc = "llm"
    /\ \E S \in {afterLLM(Running(c), config, response)} : Resume(c, "llm", S)

NextAgent ==
    \/ RunCycle
    \/ SetAutoTrade
    \/ \E c \in DOMAIN cycles, fetched \in Snapshots : MarketsReturn(c, fetched)
    \/ \E c \in DOMAIN cycles : MarketsFail(c)
    \/ \E c \in DOMAIN cycles :
           \E prices \in PriceReplies(cycles[c].tokenIds) : PricesReturn(c, prices)
    \/ \E c \in DOMAIN cycles, response \in LlmResponses : LLMReturn(c, response)

SpecAgent == InitAgent /\ [][NextAgent]_vars

\* The llm strategy on a snapshot with two markets it asks about (m2, at
\* 0.50, before m1, at 0.60), and advice of differing confidence
LlmSnapshots == { <<Market("m1", 60, 40), Market("m2", 50, 50)>> }

LlmAdvice ==
    { [action |-> "BUY_YES", confidence |-> Rat(6, 10)],
      [action |-> "BUY_NO", confidence |-> Rat(9, 10)],
      [action |-> "HOLD", confidence |-> Rat(5, 10)] }

InitLLM ==
    \E autoTrade \in BOOLEAN :
        New(AgentInitialBalance,
            [DEFAULT_CONFIG EXCEPT !.strategy = "llm", !.autoTrade = autoTrade])

NextLLM ==
    \/ RunCycle
    \/ \E c \in DOMAIN cycles, fetched \in LlmSnapshots : MarketsReturn(c, fetched)
    \/ \E c \in DOMAIN cycles : MarketsFail(c)
    \/ \E c \in DOMAIN cycles :
           \E prices \in PriceReplies(cycles[c].tokenIds) : PricesReturn(c, prices)
    \/ \E c \in DOMAIN cycles, response \in LlmAdvice : LLMReturn(c, response)

SpecLLM == InitLLM /\ [][NextLLM]_vars

---------------------------------------------------------------------------
(* The agent driven by start(), stop(), toggle() and the interval timer    *)

\* what start/stop/toggle read and write, with the number of onStatusChange
\* calls made so far in the call
Agent0 ==
    [status |-> status, cycles |-> cycles, intervalId |-> intervalId,
     timers |-> timers, emitted |-> 0]

\* the handle setInterval returns: one that no armed interval has
setInterval(armed) ==
    CHOOSE id \in 1..(Cardinality(armed) + 1) : id \notin armed

\* mutant: start() does not look at isRunning
start_Unguarded(A) ==
    LET id == setInterval(A.timers)
    IN  [A EXCEPT !.status.isRunning = TRUE,
                  !.emitted = @ + 1,
                  !.cycles = Append(@, Cycle("refresh", <<>>, <<>>, <<>>)),
                  !.intervalId = id,
                  !.timers = @ \cup {id}]

start(A) ==
    IF A.status.isRunning THEN A
    ELSE LET id == setInterval(A.timers)
         IN  [A EXCEPT !.status.isRunning = TRUE,
                       !.emitted = @ + 1,
                       !.cycles = Append(@, Cycle("refresh", <<>>, <<>>, <<>>)),
                       !.intervalId = id,
                       !.timers = @ \cup {id}]

\* mutant: stop() leaves the interval armed
stop_KeepTimer(A) ==
    IF ~A.status.isRunning THEN A
    ELSE [A EXCEPT !.status.isRunning = FALSE, !.emitted = @ + 1]

\* mutant: stop() drops the cycles in flight
stop_AbortsCycles(A) ==
    IF ~A.status.isRunning THEN A
    ELSE [A EXCEPT !.timers = IF A.intervalId # 0 THEN @ \ {A.intervalId} ELSE @,
                   !.intervalId = 0,
                   !.status.isRunning = FALSE,
                   !.cycles = <<>>,
                   !.emitted = @ + 1]

stop(A) ==
    IF ~A.status.isRunning THEN A
    ELSE [A EXCEPT !.timers = IF A.intervalId # 0 THEN @ \ {A.intervalId} ELSE @,
                   !.intervalId = 0,
                   !.status.isRunning = FALSE,
                   !.emitted = @ + 1]

toggle(A) == IF A.status.isRunning THEN stop(A) ELSE start(A)

\* the call op returned and left A; at most MaxOverlap cycles are in flight
Return(op, A) ==
    /\ Len(A.cycles) <= MaxOverlap
    /\ status' = A.status
    /\ cycles' = A.cycles
    /\ intervalId' = A.intervalId
    /\ timers' = A.timers
    /\ ret' = [op |-> op, emitted |-> A.emitted]
    /\ UNCHANGED <<ledger, config, markets, store>>

Start == Return("start", start(Agent0))

Stop == Return("stop", stop(Agent0))

Toggle == Return("toggle", toggle(Agent0))

\* the interval id fires: its callback calls runCycle(), which runs into
\* refreshMarkets' await
TickGuard(id) == id \in timers /\ Len(cycles) < MaxOverlap

\* mutant: the timer is a setTimeout, it fires once
Tick_Once(id) ==
    /\ TickGuard(id)
    /\ cycles' = Append(cycles, Cycle("refresh", <<>>, <<>>, <<>>))
    /\ timers' = timers \ {id}
    /\ ret' = [op |-> "tick", id |-> id]
    /\ UNCHANGED <<ledger, config, status, markets, intervalId, store>>

\* mutant: the callback looks for a cycle in flight and starts none then
Tick_Guarded(id) ==
    /\ TickGuard(id)
    /\ cycles' = IF cycles = <<>>
                 THEN Append(cycles, Cycle("refresh", <<>>, <<>>, <<>>))
                 ELSE cycles
    /\ ret' = [op |-> "tick", id |-> id]
    /\ UNCHANGED <<ledger, config, status, markets, timer, store>>

Tick(id) ==
    /\ TickGuard(id)
    /\ cycles' = Append(cycles, Cycle("refresh", <<>>, <<>>, <<>>))
    /\ ret' = [op |-> "tick", id |-> id]
    /\ UNCHANGED <<ledger, config, status, markets, timer, store>>

InitLifecycle ==
    \E autoTrade \in BOOLEAN :
        New(AgentInitialBalance, [DEFAULT_CONFIG EXCEPT !.autoTrade = autoTrade])

NextLifecycle ==
    \/ Start
    \/ Stop
    \/ Toggle
    \/ \E id \in timers : Tick(id)
    \/ \E c \in DOMAIN cycles, fetched \in Snapshots : MarketsReturn(c, fetched)
    \/ \E c \in DOMAIN cycles : MarketsFail(c)
    \/ \E c \in DOMAIN cycles :
           \E prices \in PriceReplies(cycles[c].tokenIds) : PricesReturn(c, prices)

SpecLifecycle == InitLifecycle /\ [][NextLifecycle]_vars

\* The agent with autoTrade off, as constructed: no order is sent, so that
\* cycles can go on for ever within MaxExec. The interval fires again and
\* again while it is armed, and a pending getEnrichedMarketsFromGamma
\* resolves or rejects (axios gives up after its timeout).
InitLive == New(AgentInitialBalance, DEFAULT_CONFIG)

FetchSettles ==
    \E c \in DOMAIN cycles :
        \/ \E fetched \in Snapshots : MarketsReturn(c, fetched)
        \/ MarketsFail(c)

TimerFires == \E id \in timers : Tick(id)

NextLive ==
    \/ Start
    \/ Stop
    \/ Toggle
    \/ TimerFires
    \/ FetchSettles

SpecLive ==
    InitLive /\ [][NextLive]_vars /\ WF_vars(TimerFires) /\ WF_vars(FetchSettles)

\* The agent with autoTrade on, cycles that overlap, and the user's manual
\* trades (app.tsx executeTrade: floor(100 / price) shares of the selected
\* market, here m1 at 0.50, bought at its price)
ManualOrders ==
    { Order(market.condition_id, "YES", "BUY",
            (100 * PriceScale) \div market.yesPrice, market.yesPrice) :
        market \in { m \in UNION { {snapshot[i] : i \in DOMAIN snapshot} :
                                   snapshot \in Snapshots } :
                       m.condition_id \in OrderMarkets /\ m.yesPrice = 50 } }

InitOverlap == New(AgentInitialBalance, [DEFAULT_CONFIG EXCEPT !.autoTrade = TRUE])

NextOverlap ==
    \/ Start
    \/ \E id \in timers : Tick(id)
    \/ \E order \in ManualOrders : Execute(order)
    \/ \E c \in DOMAIN cycles, fetched \in Snapshots : MarketsReturn(c, fetched)
    \/ \E c \in DOMAIN cycles : MarketsFail(c)
    \/ \E c \in DOMAIN cycles :
           \E prices \in PriceReplies(cycles[c].tokenIds) : PricesReturn(c, prices)

SpecOverlap == InitOverlap /\ [][NextOverlap]_vars

\* The agent with autoTrade on and room for one position, driven by
\* start() and the interval only: cycles overlap, nobody trades by hand
InitCap ==
    New(AgentInitialBalance,
        [DEFAULT_CONFIG EXCEPT !.autoTrade = TRUE, !.maxPositions = 1])

NextCap ==
    \/ Start
    \/ \E id \in timers : Tick(id)
    \/ \E c \in DOMAIN cycles, fetched \in Snapshots : MarketsReturn(c, fetched)
    \/ \E c \in DOMAIN cycles : MarketsFail(c)
    \/ \E c \in DOMAIN cycles :
           \E prices \in PriceReplies(cycles[c].tokenIds) : PricesReturn(c, prices)

SpecCap == InitCap /\ [][NextCap]_vars

---------------------------------------------------------------------------
(* start(), stop() and toggle() with a callback that calls back into the   *)
(* agent. onStatusChange and onLog are public fields: hook names the one   *)
(* that is set and the method it calls, the other being unset. A callback  *)
(* that calls toggle(), or callbacks on both fields, recurse without end.  *)

Hooks == {"none", "onStatusChange:stop", "onStatusChange:start", "onLog:stop"}

RECURSIVE startHooked(_, _)
RECURSIVE stopHooked(_, _)

\* this.onStatusChange?.(this.status)
onStatusChange(A, hook) ==
    LET A1 == [A EXCEPT !.emitted = @ + 1]
    IN  CASE hook = "onStatusChange:stop" -> stopHooked(A1, hook)
          [] hook = "onStatusChange:start" -> startHooked(A1, hook)
          [] OTHER -> A1

\* this.log(level, message): the entry is pushed and handed to onLog
log(A, hook) == IF hook = "onLog:stop" THEN stopHooked(A, hook) ELSE A

\* start(): runCycle() runs up to refreshMarkets' await, logging once
startHooked(A, hook) ==
    IF A.status.isRunning THEN log(A, hook)
    ELSE LET A1 == onStatusChange([A EXCEPT !.status.isRunning = TRUE], hook)
             A2 == log(A1, hook)
             A3 == log([A2 EXCEPT !.cycles =
                                      Append(@, Cycle("refresh", <<>>, <<>>, <<>>))],
                       hook)
             id == setInterval(A3.timers)
         IN  [A3 EXCEPT !.intervalId = id, !.timers = @ \cup {id}]

stopHooked(A, hook) ==
    IF ~A.status.isRunning THEN A
    ELSE LET A1 == [A EXCEPT
                       !.timers = IF A.intervalId # 0 THEN @ \ {A.intervalId} ELSE @,
                       !.intervalId = 0,
                       !.status.isRunning = FALSE]
         IN  log(onStatusChange(A1, hook), hook)

toggleHooked(A, hook) ==
    IF A.status.isRunning THEN stopHooked(A, hook) ELSE startHooked(A, hook)

\* the call op returned and left A; at most MaxTimers intervals are armed
ReturnHooked(op, A) == Cardinality(A.timers) <= MaxTimers /\ Return(op, A)

\* the callback is set, then agent.start() is called
StartWith(hook) == ReturnHooked("start", startHooked(Agent0, hook))

StopWith(hook) == ReturnHooked("stop", stopHooked(Agent0, hook))

ToggleWith(hook) == ReturnHooked("toggle", toggleHooked(Agent0, hook))

InitHooks == New(AgentInitialBalance, DEFAULT_CONFIG)

NextHooks ==
    \/ \E hook \in Hooks : StartWith(hook)
    \/ \E hook \in Hooks : StopWith(hook)
    \/ \E hook \in Hooks : ToggleWith(hook)
    \/ TimerFires
    \/ FetchSettles

SpecHooks == InitHooks /\ [][NextHooks]_vars

---------------------------------------------------------------------------
(* Properties of the ledger, checked under Spec *)

Keys == { Key(m, o) : m \in OrderMarkets, o \in Outcomes }

LastTrade(h) == h[Len(h)]

\* a step that appended exactly one trade to the history
Appended == Len(history') = Len(history) + 1

RECURSIVE SumBuys(_)
SumBuys(h) ==
    IF h = <<>> THEN 0
    ELSE (IF Head(h).side = "BUY"
          THEN Head(h).shares * Head(h).price * (FeeDen + FeeNum) ELSE 0)
         + SumBuys(Tail(h))

RECURSIVE SumSells(_)
SumSells(h) ==
    IF h = <<>> THEN 0
    ELSE (IF Head(h).side = "SELL"
          THEN Head(h).shares * Head(h).price * (FeeDen - FeeNum) ELSE 0)
         + SumSells(Tail(h))

RECURSIVE NetShares(_, _)
NetShares(h, k) ==
    IF h = <<>> THEN 0
    ELSE (IF Key(Head(h).marketId, Head(h).outcome) # k THEN 0
          ELSE IF Head(h).side = "BUY" THEN Head(h).shares ELSE 0 - Head(h).shares)
         + NetShares(Tail(h), k)

\* C1: starting from a fresh ledger, cash = initial cash
\*     - sum over the executed BUYs of shares*price*1.001
\*     + sum over the executed SELLs of shares*price*0.999;
\*     a failed call appends no trade and so contributes nothing.
C1_CashConservation ==
    balance.cash = balance.initialBalance - SumBuys(history) + SumSells(history)

C1_Witness ==
    /\ Len(history) >= 2
    /\ \E i, j \in DOMAIN history :
          /\ history[i].side = "BUY" /\ history[i].price > 0
          /\ history[j].side = "SELL" /\ history[j].price > 0
    /\ ret.op = "execute" /\ ~ret.success

\* C2: with orders of shares > 0 and 0 <= price <= 1, under execute,
\*     updatePrices and reset, cash is never negative.
C2_CashNonNegative == balance.cash >= 0

\* a BUY was refused because the cash left does not cover it
C2_Witness ==
    /\ ret.op = "execute" /\ ~ret.success
    /\ ret.error.kind = "Insufficient funds"
    /\ balance.cash < 2 * Dollar
    /\ history # <<>>

\* C3: an execute() that returns success = false (insufficient funds,
\*     insufficient shares) carries an error and leaves cash, totalValue, the
\*     position map and the trade history exactly as they were.
C3_NoMutationOnFailure ==
    [][(ret'.op = "execute" /\ ~ret'.success)
          => /\ ledger' = ledger
             /\ ret'.error.kind \in {"Insufficient funds", "Insufficient shares"}
             /\ ret'.newBalance = <<>>]_vars

\* a SELL of more shares than the position holds was refused
C3_Witness ==
    /\ ret.op = "execute" /\ ~ret.success
    /\ ret.error.kind = "Insufficient shares"
    /\ ret.error.a > 0 /\ ret.error.b > ret.error.a
    /\ history # <<>>

\* C4: the avgPrice of a position that exists before and after a step
\*     changes only if the step is a BUY into that position's key; in
\*     particular a SELL of fewer shares than held leaves it unchanged.
C4_AvgPriceFrame ==
    [][\A k \in DOMAIN positions \cap DOMAIN positions' :
          positions'[k].avgPrice # positions[k].avgPrice
             => /\ Appended
                /\ LastTrade(history').side = "BUY"
                /\ Key(LastTrade(history').marketId, LastTrade(history').outcome) = k]_vars

\* after a partial SELL at a price other than the cost basis
C4_Witness ==
    /\ history # <<>>
    /\ LastTrade(history).side = "SELL"
    /\ LET k == Key(LastTrade(history).marketId, LastTrade(history).outcome)
       IN  /\ k \in DOMAIN positions
           /\ positions[k].avgPrice # RInt(LastTrade(history).price)

\* C5: a successful BUY of s at p into a key holding S at average A gives
\*     shares S+s and avgPrice (S*A + s*p)/(S+s); into a key with no
\*     position it creates one with shares s and avgPrice p.
C5_BuyAveraging ==
    [][(Appended /\ LastTrade(history').side = "BUY")
          => LET t == LastTrade(history')
                 k == Key(t.marketId, t.outcome)
             IN  /\ k \in DOMAIN positions'
                 /\ IF k \in DOMAIN positions
                    THEN LET S == positions[k].shares
                             A == positions[k].avgPrice
                             N == positions'[k].avgPrice
                         IN  /\ positions'[k].shares = S + t.shares
                             /\ N.d > 0
                             /\ N.n * (S + t.shares) * A.d
                                   = (S * A.n + t.shares * t.price * A.d) * N.d
                    ELSE /\ positions'[k].shares = t.shares
                         /\ positions'[k].avgPrice = RInt(t.price)]_vars

\* a BUY into an existing position gave a non-integral average
C5_Witness ==
    /\ history # <<>>
    /\ LastTrade(history).side = "BUY"
    /\ LET k == Key(LastTrade(history).marketId, LastTrade(history).outcome)
       IN  /\ k \in DOMAIN positions
           /\ positions[k].shares > LastTrade(history).shares
           /\ positions[k].avgPrice.d > 1

\* C6: the stored totalValue equals cash plus the sum of
\*     shares*currentPrice over the open positions in every reachable state,
\*     also right after a buy or a sell and before any reprice.
C6_TotalValueInvariant ==
    balance.totalValue = balance.cash + getTotalValue(positions)

\* C7: every open position has unrealizedPnL = (currentPrice - avgPrice) * shares.
C7_UnrealizedPnL ==
    \A k \in DOMAIN positions :
        LET q == positions[k]
        IN  /\ q.unrealizedPnL.d > 0
            /\ q.unrealizedPnL.n * q.avgPrice.d
                  = (q.currentPrice * q.avgPrice.d - q.avgPrice.n) * q.shares
                       * q.unrealizedPnL.d

\* a repriced position carrying a loss on a non-integral cost basis
C7_Witness ==
    /\ ret.op = "updatePrices"
    /\ \E k \in DOMAIN positions :
          /\ positions[k].unrealizedPnL.n < 0
          /\ positions[k].avgPrice.d > 1

\* C8: every position in the map has shares > 0: a key is present exactly
\*     while the shares bought minus the shares sold for it are positive,
\*     and the position holds exactly that many shares.
C8_SharesPositive ==
    /\ \A k \in DOMAIN positions : positions[k].shares > 0
    /\ \A k \in Keys :
          /\ (k \in DOMAIN positions) = (NetShares(history, k) > 0)
          /\ k \in DOMAIN positions => positions[k].shares = NetShares(history, k)
    /\ DOMAIN positions \subseteq Keys

\* the sell that brought a position to 0 shares removed its key
C8_Witness ==
    /\ history # <<>>
    /\ LastTrade(history).side = "SELL"
    /\ Key(LastTrade(history).marketId, LastTrade(history).outcome) \notin DOMAIN positions
    /\ LastTrade(history).price > history[1].price

---------------------------------------------------------------------------
(* Properties of the agent's cycle, checked under SpecAgent *)

\* the trades a step appended
NewTrades == SubSeq(history', Len(history) + 1, Len(history'))

\* C9: the loop over a cycle's opportunities sends at most one order and
\* appends at most one BUY trade: the opportunities are decided in order, the
\* first one decided EXECUTE while autoTrade is on is the last one decided and
\* the only one sent to the executor, and when none is, all are decided and
\* none is sent.
C9_OneTradePerCycle ==
    [][(ret'.op = "runCycle" /\ ret'.did.traded) =>
        LET did == ret'.did
            n == Len(did.decisions)
            buys == SelectSeq(NewTrades, LAMBDA t : t.side = "BUY")
        IN  /\ n <= did.opportunities
            /\ did.executed <= 1
            /\ Len(buys) <= did.executed
            /\ \A i \in 1..n :
                   (did.decisions[i] = "EXECUTE" /\ config.autoTrade)
                       => (i = n /\ did.executed = 1)
            /\ did.executed = 1
                   => (n >= 1 /\ did.decisions[n] = "EXECUTE" /\ config.autoTrade)
            /\ did.executed = 0 => n = did.opportunities]_vars

\* a cycle found two opportunities, traded the first and never decided the second
C9_Witness ==
    /\ ret.op = "runCycle"
    /\ ret.did.traded
    /\ ret.did.opportunities = 2
    /\ ret.did.decisions = <<"EXECUTE">>
    /\ ret.did.executed = 1
    /\ history # <<>>
    /\ LastTrade(history).side = "BUY"

\* C10: a step of a cycle that runs while autoTrade is off sends no order to
\* the executor and leaves the trade history, the cash, the set of position
\* keys and every position's shares and avgPrice as they were.
C10_NoOrdersWithoutAutoTrade ==
    [][(ret'.op = "runCycle" /\ ~config.autoTrade) =>
        /\ ret'.did.exitOrders = 0
        /\ ret'.did.executed = 0
        /\ history' = history
        /\ nextId' = nextId
        /\ balance'.cash = balance.cash
        /\ DOMAIN positions' = DOMAIN positions
        /\ \A k \in DOMAIN positions :
               /\ positions'[k].shares = positions[k].shares
               /\ positions'[k].avgPrice = positions[k].avgPrice]_vars

\* with autoTrade off, a cycle repriced a position, saw an exit signal for it
\* and decided EXECUTE for an opportunity
C10_Witness ==
    /\ ret.op = "runCycle"
    /\ ret.at = "prices"
    /\ ~ret.autoTrade
    /\ ret.did.flagged >= 1
    /\ ret.did.traded
    /\ \E i \in DOMAIN ret.did.decisions : ret.did.decisions[i] = "EXECUTE"
    /\ \E k \in DOMAIN positions : RInt(positions[k].currentPrice) # positions[k].avgPrice

---------------------------------------------------------------------------
(* The RiskManager called on portfolios that a sequence of fills and       *)
(* reprices leaves, under several configurations                           *)

\* the fills of scenarios A to C, two markets at once, a dear and a cheap token
RiskFills ==
    { <<>>,
      <<Order("m1", "YES", "BUY", 1000, 40)>>,
      <<Order("m1", "YES", "BUY", 1000, 40), Order("m1", "YES", "BUY", 500, 50),
        Order("m1", "YES", "SELL", 300, 60)>>,
      <<Order("m1", "YES", "BUY", 100, 80), Order("m2", "NO", "BUY", 100, 50)>>,
      <<Order("m2", "YES", "BUY", 200, 70)>>,
      <<Order("m2", "NO", "BUY", 1000, 1)>>,
      <<Order("m1", "YES", "BUY", 10, 50), Order("m1", "NO", "BUY", 1000, 50)>> }

RECURSIVE FillAll(_, _)
FillAll(L, orders) ==
    IF orders = <<>> THEN L
    ELSE FillAll(execute(L, Head(orders)).ledger, Tail(orders))

RiskLedgers ==
    { FillAll(Ledger(NewBalance(AgentInitialBalance * Dollar), EmptyPositions,
                     <<>>, <<>>, 1), fills) : fills \in RiskFills }

MinConfidences == {Rat(5, 10), Rat(7, 10)}

RiskConfigs ==
    { [DEFAULT_CONFIG EXCEPT !.minConfidence = c, !.maxPositions = l[1],
                             !.maxPositionSize = l[2]] :
        c \in MinConfidences, l \in {<<10, 10000>>, <<1, 10000>>, <<10, 100>>} }

RiskPrices == {1, 2, 50, 65, 95, 97}

RiskAnalyses ==
    { Analysis(market, signal, confidence, RInt(size)) :
        market \in {Market("m1", 80, 20), Market("m2", 50, 50)},
        signal \in {"BUY_YES", "BUY_NO"},
        confidence \in {Rat(45, 100), Rat(5, 10), Rat(7, 10)},
        size \in {10, 500} }

InitRisk ==
    \E L \in RiskLedgers, cfg \in RiskConfigs :
        /\ balance = L.balance
        /\ positions = L.positions
        /\ keyOrder = L.keyOrder
        /\ history = L.history
        /\ nextId = L.nextId
        /\ ret = [op |-> "new"]
        /\ config = cfg
        /\ status = NewStatus(cfg)
        /\ markets = <<>>
        /\ cycles = <<>>
        /\ intervalId = 0
        /\ timers = {}
        /\ store = <<>>

\* portfolio.updatePrices(new Map([[tokenId, price]]))
Reprice(k, price) ==
    /\ Install(PortfolioManager_updatePrices(Cur, positions[k].tokenId :> price))
    /\ ret' = [op |-> "updatePrices", prices |-> positions[k].tokenId :> price]
    /\ UNCHANGED agent

\* riskManager.canTakeNewPosition(analysis, getPositions(), getSummary())
CanTakeNewPosition(analysis) ==
    /\ ret' = [op |-> "canTakeNewPosition", analysis |-> analysis,
               result |-> canTakeNewPosition(config, analysis,
                              getAllPositions(positions, keyOrder), getSummary(Cur))]
    /\ UNCHANGED <<ledger, agent>>

\* riskManager.shouldClosePosition(position) for the position under key k
ShouldClosePosition(k) ==
    /\ ret' = [op |-> "shouldClosePosition", key |-> k,
               result |-> shouldClosePosition(positions[k])]
    /\ UNCHANGED <<ledger, agent>>

NextRisk ==
    \/ \E k \in DOMAIN positions, price \in RiskPrices : Reprice(k, price)
    \/ \E analysis \in RiskAnalyses : CanTakeNewPosition(analysis)
    \/ \E k \in DOMAIN positions : ShouldClosePosition(k)

SpecRisk == InitRisk /\ [][NextRisk]_vars

\* The exit phase of a cycle on these ledgers, repriced: agent.checkExits()
\* with autoTrade on or off
InitExit ==
    \E L \in RiskLedgers, autoTrade \in BOOLEAN :
        /\ balance = L.balance
        /\ positions = L.positions
        /\ keyOrder = L.keyOrder
        /\ history = L.history
        /\ nextId = L.nextId
        /\ ret = [op |-> "new"]
        /\ config = [DEFAULT_CONFIG EXCEPT !.autoTrade = autoTrade]
        /\ status = NewStatus(config)
        /\ markets = <<>>
        /\ cycles = <<>>
        /\ intervalId = 0
        /\ timers = {}
        /\ store = <<>>

CheckExits ==
    \E S \in {checkExits([ledger |-> Cur, status |-> status, markets |-> markets,
                          cyc |-> Cycle("prices", <<>>, <<>>, <<>>), did |-> Did0],
                         config, getAllPositions(positions, keyOrder), 1)} :
        /\ Install(S.ledger)
        /\ ret' = [op |-> "checkExits", autoTrade |-> config.autoTrade,
                   did |-> S.did, before |-> Cur]
        /\ UNCHANGED agent

NextExit ==
    \/ \E k \in DOMAIN positions, price \in RiskPrices : Reprice(k, price)
    \/ CheckExits

SpecExit == InitExit /\ [][NextExit]_vars

---------------------------------------------------------------------------
(* Properties of the RiskManager, under SpecRisk                           *)

Checked == ret.op = "canTakeNewPosition"

\* the four conditions of the recorded call, each computed on its own; the
\* position of the market is the one positions.find returns
CountFails == Len(getAllPositions(positions, keyOrder)) >= config.maxPositions

SizeFails ==
    LET found == FindByMarket(getAllPositions(positions, keyOrder),
                              ret.analysis.market.condition_id)
    IN  /\ found # <<>>
        /\ found[1].shares * found[1].currentPrice
               >= config.maxPositionSize * PriceScale

ConfidenceFails == RLess(ret.analysis.confidence, config.minConfidence)

\* suggestedSize (dollars) times the quoted price (ticks) against a fifth of
\* the cash (units of 1/Dollar)
CashFails ==
    LET cost == RMul(ret.analysis.suggestedSize,
                     RInt(QuotedPrice(ret.analysis) * FeeDen))
    IN  RLess(Rat(balance.cash, 5), cost)

\* C11: canTakeNewPosition returns the reason of the first failing check in
\* the order position count, position size in the market, confidence, cash
\* share, and allows the trade exactly when no check fails
C11_FirstFailingCheck ==
    Checked =>
        /\ ret.result.allowed
               = ~(CountFails \/ SizeFails \/ ConfidenceFails \/ CashFails)
        /\ ret.result.reason =
               IF CountFails THEN "Max positions reached"
               ELSE IF SizeFails THEN "Max position size reached for this market"
               ELSE IF ConfidenceFails THEN "Confidence below threshold"
               ELSE IF CashFails THEN "Trade too large relative to available cash"
               ELSE "Trade passes risk checks"

\* a call where the count check and the confidence check both fail
C11_Witness ==
    /\ Checked /\ CountFails /\ ConfidenceFails
    /\ ret.result = [allowed |-> FALSE, reason |-> "Max positions reached"]

\* C12 as stated: an analysis whose confidence is below minConfidence is
\* rejected with the confidence reason in every portfolio state
C12_ConfidenceReasonAlways ==
    Checked /\ ConfidenceFails =>
        ret.result = [allowed |-> FALSE, reason |-> "Confidence below threshold"]

\* C12, amended: an analysis whose confidence is below minConfidence is
\* rejected in every portfolio state; the reason is the confidence one exactly
\* when the position count and the market's position size pass their checks
C12_LowConfidenceRejected ==
    Checked /\ ConfidenceFails =>
        /\ ~ret.result.allowed
        /\ (ret.result.reason = "Confidence below threshold")
               = (~CountFails /\ ~SizeFails)

\* scenario F (minConfidence 0.5, confidence 0.45) on a portfolio whose
\* position in the market is at the size limit
C12_Witness ==
    /\ Checked /\ ~CountFails /\ SizeFails
    /\ config.minConfidence = Rat(5, 10)
    /\ ret.analysis.confidence = Rat(45, 100)
    /\ ret.result.reason = "Max position size reached for this market"

Thresholds == { Rat(k, 20) : k \in 0..20 }

\* the recorded call repeated under another confidence threshold
RecheckedUnder(c) ==
    canTakeNewPosition([config EXCEPT !.minConfidence = c], ret.analysis,
                       getAllPositions(positions, keyOrder), getSummary(Cur))

\* C13: with analysis, positions and summary fixed, a rejection under
\* minConfidence c is a rejection under every threshold c' >= c
C13_RejectionMonotone ==
    Checked /\ ~ret.result.allowed =>
        \A c \in Thresholds :
            ~RLess(c, config.minConfidence) => ~RecheckedUnder(c).allowed

\* a call rejected for its size under 0.5 although its confidence passes, and
\* rejected for its confidence under 0.7
C13_Witness ==
    /\ Checked /\ ~ConfidenceFails
    /\ config.minConfidence = Rat(5, 10)
    /\ ret.result.reason = "Trade too large relative to available cash"
    /\ RecheckedUnder(Rat(7, 10)).reason = "Confidence below threshold"

Closed == ret.op = "shouldClosePosition"

\* the three conditions of the recorded call, each computed on its own from
\* the position: unrealizedPnL against +50% and -30% of shares * avgPrice,
\* and currentPrice against 0.95 and 0.02
Basis == RMul(RInt(positions[ret.key].shares), positions[ret.key].avgPrice)

TakesProfit == RLess(RMul(Basis, Rat(1, 2)), positions[ret.key].unrealizedPnL)

StopsLoss == RLess(positions[ret.key].unrealizedPnL, RMul(Basis, Rat(0 - 3, 10)))

NearCertain == positions[ret.key].currentPrice * 100 > 95 * PriceScale

NearWorthless == positions[ret.key].currentPrice * 100 < 2 * PriceScale

\* C14: shouldClosePosition answers take-profit when the unrealized PnL is
\* above +50% of the cost basis, else stop-loss when it is below -30%, else a
\* forced exit when the price is above 0.95 or below 0.02, and shouldClose is
\* false exactly when none of these holds
C14_ExitPriority ==
    Closed =>
        /\ ret.result.shouldClose
               = (TakesProfit \/ StopsLoss \/ NearCertain \/ NearWorthless)
        /\ ret.result.reason =
               IF TakesProfit THEN "Take profit"
               ELSE IF StopsLoss THEN "Stop loss"
               ELSE IF NearCertain THEN "Near-certain outcome, taking profit"
               ELSE IF NearWorthless THEN "Position near worthless, cutting loss"
               ELSE "Position within risk parameters"

\* a position past the stop-loss whose price is also below 0.02
C14_Witness ==
    /\ Closed /\ StopsLoss /\ NearWorthless
    /\ ret.result = [shouldClose |-> TRUE, reason |-> "Stop loss"]

Repriced97 == Closed /\ positions[ret.key].currentPrice = 97

\* C15 as stated: a position repriced to 0.97 is closed with the reason
\* citing the near-certain outcome
C15_NearCertainReason ==
    Repriced97 =>
        ret.result = [shouldClose |-> TRUE,
                      reason |-> "Near-certain outcome, taking profit"]

\* C15, amended: a position repriced to 0.97 is closed; the reason cites the
\* near-certain outcome exactly when neither take-profit nor stop-loss
\* applies, and is take-profit for a position above +50%
C15_ClosedAt97 ==
    Repriced97 =>
        /\ ret.result.shouldClose
        /\ ~StopsLoss
        /\ ret.result.reason = IF TakesProfit THEN "Take profit"
                               ELSE "Near-certain outcome, taking profit"

\* the position of scenario C (1200 shares, avgPrice 0.4333) repriced to 0.97
C15_Witness ==
    /\ Repriced97
    /\ positions[ret.key].shares = 1200
    /\ positions[ret.key].avgPrice = Rat(130, 3)
    /\ ret.result = [shouldClose |-> TRUE, reason |-> "Take profit"]

---------------------------------------------------------------------------
(* serialize() and restore(): the ledger as JavaScript values and as JSON  *)
(*                                                                         *)
(* A JavaScript value is [t, v]: t is its kind and v its content.  The     *)
(* kinds are "undefined", "null", "number" (v a rational, d = 0 for NaN    *)
(* and the infinities, in the unit of the field it came from), "date" (v   *)
(* the time value, -1 for an Invalid Date), "array" (v a sequence),        *)
(* "object" (v a function from its keys) and four kinds of string:         *)
(* "string" (plain text such as a market id), "uuid" (v the number of the  *)
(* uuid), "iso" (the ISO form of the time value v) and "text" (the JSON    *)
(* text of the JSON value v).  Only a "text" string parses as JSON.        *)

JS(t, v) == [t |-> t, v |-> v]

Undefined == JS("undefined", 0)

\* obj[key]; the callers test for null and undefined, where it throws
Get(x, key) ==
    IF x.t = "object" /\ key \in DOMAIN x.v THEN x.v[key] ELSE Undefined

\* the value JSON.parse(JSON.stringify(x)) gives: a number that is not
\* finite and an Invalid Date become null, a Date its ISO string, an
\* undefined property is dropped and an undefined element becomes null
RECURSIVE toJSON(_)
toJSON(x) ==
    CASE x.t = "number" -> IF x.v.d = 0 THEN JS("null", 0) ELSE x
      [] x.t = "date" -> IF x.v < 0 THEN JS("null", 0) ELSE JS("iso", x.v)
      [] x.t = "array" ->
            JS("array", [i \in DOMAIN x.v |->
                            IF x.v[i].t = "undefined" THEN JS("null", 0)
                            ELSE toJSON(x.v[i])])
      [] x.t = "object" ->
            JS("object", [k \in {j \in DOMAIN x.v : x.v[j].t # "undefined"} |->
                             toJSON(x.v[k])])
      [] x.t \in {"null", "string", "uuid", "iso", "text"} -> x

JSON_stringify(x) == JS("text", toJSON(x))

\* JSON.parse(x): <<value>>, or <<>> when it throws; an argument that is not
\* a string is converted to one first
JSON_parse(x) ==
    CASE x.t = "text" -> <<x.v>>
      [] x.t = "null" -> <<x>>
      [] x.t = "number" -> IF x.v.d = 0 THEN <<>> ELSE <<x>>
      [] x.t \in {"undefined", "string", "uuid", "iso", "object"} -> <<>>

\* mutant: the string is kept where restore makes a Date of it
newDate_Kept(x) == x

\* new Date(x)
newDate(x) ==
    CASE x.t = "iso" -> JS("date", x.v)
      [] x.t = "date" -> x
      [] x.t = "null" -> JS("date", 0)
      [] x.t = "number" ->
            IF x.v.d = 0 THEN JS("date", 0 - 1)
            ELSE JS("date", Sign(x.v.n) * (Abs(x.v.n) \div x.v.d))
      [] x.t \in {"undefined", "string", "uuid", "object", "array"} ->
            JS("date", 0 - 1)

\* { ...x, field: new Date(x.field) }, or <<>> when x.field throws; the
\* spread of a number has no properties, that of an array has its indices
revive(x, field) ==
    IF x.t \in {"null", "undefined"} THEN <<>>
    ELSE LET index == <<"0", "1", "2", "3">>
             own == CASE x.t = "object" -> x.v
                      [] x.t = "number" -> [k \in {} |-> Undefined]
                      [] x.t = "array" ->
                            [k \in {index[i] : i \in DOMAIN x.v} |->
                                x.v[CHOOSE i \in DOMAIN x.v : index[i] = k]]
         IN  <<JS("object", [k \in DOMAIN own \cup {field} |->
                                IF k = field THEN newDate(Get(x, field))
                                ELSE own[k]])>>


BalanceManager_serialize(b) == JSON_stringify(b)

BalanceManager_restore(b, data) ==
    LET parsed == JSON_parse(data)
        revived == IF parsed = <<>> THEN <<>> ELSE revive(parsed[1], "lastUpdated")
    IN  IF revived = <<>> THEN b ELSE revived[1]

\* the Map is held as Array.from(positions.entries())
PositionTracker_serialize(P) == JSON_stringify(P)

\* ([key, pos]) => [key, { ...pos, openedAt: new Date(pos.openedAt) }], or
\* <<>> when it throws
reviveEntry(entry) ==
    CASE entry.t \in {"null", "undefined", "number", "object"} -> <<>>
      [] entry.t = "array" ->
            LET key == IF Len(entry.v) >= 1 THEN entry.v[1] ELSE Undefined
                pos == IF Len(entry.v) >= 2 THEN entry.v[2] ELSE Undefined
                revived == revive(pos, "openedAt")
            IN  IF revived = <<>> THEN <<>>
                ELSE <<JS("array", <<key, revived[1]>>)>>

\* new Map(parsed.map(...)); the keys of the entries of an input are distinct
PositionTracker_restore(P, data) ==
    LET parsed == JSON_parse(data)
    IN  IF parsed = <<>> THEN P
        ELSE IF parsed[1].t # "array" THEN P
        ELSE IF \E i \in DOMAIN parsed[1].v : reviveEntry(parsed[1].v[i]) = <<>>
        THEN P
        ELSE JS("array", [i \in DOMAIN parsed[1].v |-> reviveEntry(parsed[1].v[i])[1]])

TradeExecutor_serialize(H) == JSON_stringify(H)

TradeExecutor_restore(H, data) ==
    LET parsed == JSON_parse(data)
    IN  IF parsed = <<>> THEN H
        ELSE IF parsed[1].t # "array" THEN H
        ELSE IF \E i \in DOMAIN parsed[1].v : revive(parsed[1].v[i], "timestamp") = <<>>
        THEN H
        ELSE JS("array", [i \in DOMAIN parsed[1].v |->
                             revive(parsed[1].v[i], "timestamp")[1]])

PortfolioManager_serialize(S) ==
    JSON_stringify(JS("object",
        [balance |-> BalanceManager_serialize(S.balance),
         positions |-> PositionTracker_serialize(S.positions),
         trades |-> TradeExecutor_serialize(S.trades)]))

\* if (x): the strings of the model are not empty
Truthy(x) ==
    CASE x.t \in {"undefined", "null"} -> FALSE
      [] x.t = "number" -> x.v.n # 0
      [] x.t \in {"string", "uuid", "iso", "text", "object", "array", "date"} -> TRUE

PortfolioManager_restore(S, data) ==
    LET parsed == JSON_parse(data)
    IN  IF parsed = <<>> THEN S
        ELSE IF parsed[1].t \in {"null", "undefined"} THEN S
        ELSE LET b == Get(parsed[1], "balance")
                 p == Get(parsed[1], "positions")
                 t == Get(parsed[1], "trades")
             IN  [balance |-> IF Truthy(b) THEN BalanceManager_restore(S.balance, b)
                              ELSE S.balance,
                  positions |-> IF Truthy(p)
                                THEN PositionTracker_restore(S.positions, p)
                                ELSE S.positions,
                  trades |-> IF Truthy(t) THEN TradeExecutor_restore(S.trades, t)
                             ELSE S.trades]

\* the ledger L as JavaScript values, its Dates counted from `at`: a trade
\* is made at `at` plus its number, and the balance was last updated after it
Dress(L, at) ==
    LET number(i) == JS("number", RInt(i))
        string(x) == JS("string", x)
        position(i) ==
            LET q == L.positions[L.keyOrder[i]]
            IN  JS("array", <<string(L.keyOrder[i]),
                    JS("object",
                       [marketId |-> string(q.marketId),
                        tokenId |-> string(q.tokenId),
                        outcome |-> string(q.outcome),
                        shares |-> number(q.shares),
                        avgPrice |-> JS("number", q.avgPrice),
                        currentPrice |-> number(q.currentPrice),
                        unrealizedPnL |-> JS("number", q.unrealizedPnL),
                        openedAt |-> JS("date", at + i)])>>)
        trade(i) ==
            LET q == L.history[i]
            IN  JS("object",
                   [id |-> JS("uuid", q.id),
                    timestamp |-> JS("date", at + q.id),
                    marketId |-> string(q.marketId),
                    tokenId |-> string(q.tokenId),
                    outcome |-> string(q.outcome),
                    side |-> string(q.side),
                    shares |-> number(q.shares),
                    price |-> number(q.price),
                    totalCost |-> number(q.totalCost),
                    fees |-> number(q.fees)]
                   @@ (IF q.realizedPnL = <<>> THEN [k \in {} |-> Undefined]
                       ELSE [k \in {"realizedPnL"} |->
                                JS("number", q.realizedPnL[1])]))
    IN  [balance |-> JS("object",
                        [cash |-> number(L.balance.cash),
                         totalValue |-> number(L.balance.totalValue),
                         initialBalance |-> number(L.balance.initialBalance),
                         lastUpdated |-> JS("date", at + L.nextId)]),
         positions |-> JS("array", [i \in DOMAIN L.keyOrder |-> position(i)]),
         trades |-> JS("array", [i \in DOMAIN L.history |-> trade(i)])]

\* a fresh ledger, the ledger of scenarios A to C, one with two positions
StoreLedgers ==
    { FillAll(Ledger(NewBalance(AgentInitialBalance * Dollar), EmptyPositions,
                     <<>>, <<>>, 1), fills) :
        fills \in { <<>>,
                    <<Order("m1", "YES", "BUY", 1000, 40),
                      Order("m1", "YES", "BUY", 500, 50),
                      Order("m1", "YES", "SELL", 300, 60)>>,
                    <<Order("m1", "YES", "BUY", 100, 80),
                      Order("m2", "NO", "BUY", 100, 50)>> } }

\* the stores of these ledgers
Stores == { Dress(L, 1000) : L \in StoreLedgers }

\* text that is no serialization: not JSON, {}, null, [["k", {}]]
Unparsable == JS("string", "garbage")

Malformed ==
    { Unparsable,
      JS("text", JS("object", [k \in {} |-> Undefined])),
      JS("text", JS("null", 0)),
      JS("text", JS("array", <<JS("array", <<JS("string", "k"),
                                             JS("object", [k \in {} |-> Undefined])>>)>>)) }

SubBlobs == {"balance", "positions", "trades"}

\* what is handed to PortfolioManager.restore: a saved portfolio, text that
\* is none, and the saved ledger of scenarios A to C with one sub-blob
\* replaced by such text or missing
Blobs ==
    LET saved == JSON_parse(PortfolioManager_serialize(
                     CHOOSE T \in Stores : Len(T.trades.v) = 3))[1].v
    IN  { PortfolioManager_serialize(T) : T \in Stores }
        \cup Malformed
        \cup { JS("text", JS("object",
                   [k \in SubBlobs |-> IF k = bad THEN text ELSE saved[k]])) :
                 bad \in SubBlobs, text \in Malformed }
        \cup { JS("text", JS("object", [k \in SubBlobs \ {bad} |-> saved[k]])) :
                 bad \in SubBlobs }

\* a new PortfolioManager, before it restores what an earlier run saved; the
\* ledger variables, whose records have no Dates and cannot hold what a
\* malformed blob leaves, stay at this ledger while store holds the components
InitStore ==
    \E L \in {Ledger(NewBalance(AgentInitialBalance * Dollar), EmptyPositions,
                     <<>>, <<>>, 1)} :
        /\ balance = L.balance
        /\ positions = L.positions
        /\ keyOrder = L.keyOrder
        /\ history = L.history
        /\ nextId = L.nextId
        /\ ret = [op |-> "new"]
        /\ config = DEFAULT_CONFIG
        /\ status = NewStatus(DEFAULT_CONFIG)
        /\ markets = <<>>
        /\ cycles = <<>>
        /\ intervalId = 0
        /\ timers = {}
        /\ store = Dress(L, 1000)

\* the call op(data) returned and left the store S
Restored(op, data, S) ==
    /\ store' = S
    /\ ret' = [op |-> op, data |-> data]
    /\ UNCHANGED <<ledger, config, status, markets, cycles, timer>>

\* portfolio.serialize()
Serialize ==
    /\ ret' = [op |-> "serialize", data |-> PortfolioManager_serialize(store)]
    /\ UNCHANGED <<ledger, agent>>

\* portfolio.restore(data)
Restore(data) == Restored("restore", data, PortfolioManager_restore(store, data))

\* balanceManager.restore(data)
RestoreBalance(data) ==
    Restored("balance", data,
             [store EXCEPT !.balance = BalanceManager_restore(@, data)])

\* positionTracker.restore(data)
RestorePositions(data) ==
    Restored("positions", data,
             [store EXCEPT !.positions = PositionTracker_restore(@, data)])

\* tradeExecutor.restore(data)
RestoreTrades(data) ==
    Restored("trades", data,
             [store EXCEPT !.trades = TradeExecutor_restore(@, data)])

NextStore ==
    \/ Serialize
    \/ \E data \in Blobs : Restore(data)
    \/ \E data \in {BalanceManager_serialize(T.balance) : T \in Stores}
                       \cup {Unparsable} : RestoreBalance(data)
    \/ \E data \in {PositionTracker_serialize(T.positions) : T \in Stores}
                       \cup {Unparsable} : RestorePositions(data)
    \/ \E data \in {TradeExecutor_serialize(T.trades) : T \in Stores}
                       \cup {Unparsable} : RestoreTrades(data)

SpecStore == InitStore /\ [][NextStore]_vars

---------------------------------------------------------------------------
(* The executor on markets and outcomes whose names contain '-' *)

\* orders of the pairs (a, b-c), (a, c), (a-b, b-c), (a-b, c)
KeyOrders ==
    { Order(m, o, side, shares, 50) :
        m \in {"a", "a-b"}, o \in {"b-c", "c"}, side \in {"BUY", "SELL"},
        shares \in ShareSizes }

InitKeys == New(AgentInitialBalance, DEFAULT_CONFIG)

NextKeys == \E order \in KeyOrders : Execute(order)

SpecKeys == InitKeys /\ [][NextKeys]_vars

---------------------------------------------------------------------------
(* makeDecision on ledgers, configurations and analyses of every kind *)

\* the ledgers of the risk scenarios, and one with 49.05 dollars of cash left
DecideLedgers ==
    RiskLedgers \cup
        { FillAll(Ledger(NewBalance(AgentInitialBalance * Dollar), EmptyPositions,
                         <<>>, <<>>, 1),
                  <<Order("m2", "YES", "BUY", 1900, 50)>>) }

DecideConfigs == {DEFAULT_CONFIG, [DEFAULT_CONFIG EXCEPT !.maxPositionSize = 50]}

\* quotes of 1.00, 0.01, 0.50, 0.33 and 0.67
DecideAnalyses ==
    { Analysis(market, signal, confidence, RInt(size)) :
        market \in {Market("m1", 100, 1), Market("m2", 50, 50), Market("m3", 33, 67)},
        signal \in {"BUY_YES", "BUY_NO"},
        confidence \in {Rat(7, 10), RInt(1)},
        size \in {10, 100, 500} }

InitDecide ==
    \E L \in DecideLedgers, cfg \in DecideConfigs :
        /\ balance = L.balance
        /\ positions = L.positions
        /\ keyOrder = L.keyOrder
        /\ history = L.history
        /\ nextId = L.nextId
        /\ ret = [op |-> "new"]
        /\ config = cfg
        /\ status = NewStatus(cfg)
        /\ markets = <<>>
        /\ cycles = <<>>
        /\ intervalId = 0
        /\ timers = {}
        /\ store = <<>>

\* agent.makeDecision(analysis)
MakeDecision(analysis) ==
    /\ ret' = [op |-> "makeDecision", analysis |-> analysis,
               decision |-> makeDecision(Cur, config, analysis)]
    /\ UNCHANGED <<ledger, agent>>

NextDecide ==
    \/ \E k \in DOMAIN positions, price \in RiskPrices : Reprice(k, price)
    \/ \E analysis \in DecideAnalyses : MakeDecision(analysis)

SpecDecide == InitDecide /\ [][NextDecide]_vars

---------------------------------------------------------------------------
(* updateConfig({ riskLevel }) and the decisions made after it *)

\* { ...cfg, ...patch } for a patch of some of cfg's fields
Merge(cfg, patch) ==
    [k \in DOMAIN cfg |-> IF k \in DOMAIN patch THEN patch[k] ELSE cfg[k]]

\* mutant: a new riskLevel brings the parameters of getRiskParams with it
TradingAgent_updateConfig_RiskParams(cfg, riskCfg, patch) ==
    LET merged == Merge(cfg, patch)
        c == IF "riskLevel" \in DOMAIN patch
             THEN [merged EXCEPT !.maxPositions = 5 + patch.riskLevel * 3,
                                 !.maxPositionSize = 50 + patch.riskLevel * 50,
                                 !.minConfidence =
                                     RSub(Rat(7, 10), Rat(5 * patch.riskLevel, 100))]
             ELSE merged
    IN  [config |-> c, riskConfig |-> Merge(riskCfg, c)]

\* the agent's config and its RiskManager's after agent.updateConfig(patch)
TradingAgent_updateConfig(cfg, riskCfg, patch) ==
    LET c == Merge(cfg, patch)
    IN  [config |-> c, riskConfig |-> Merge(riskCfg, c)]

\* the lowest, the default and the highest of the levels 1 to 10
RiskLevels == {1, 5, 10}

\* agent.updateConfig({ riskLevel: level }); the RiskManager's config, which
\* the constructor made the agent's own, is kept in ret
UpdateRiskLevel(level) ==
    \E r \in {TradingAgent_updateConfig(config, config, [riskLevel |-> level])} :
        /\ config' = r.config
        /\ status' = [status EXCEPT !.strategy = r.config.strategy]
        /\ ret' = [op |-> "updateConfig", was |-> config, riskConfig |-> r.riskConfig]
        /\ UNCHANGED <<ledger, markets, cycles, timer, store>>

InitConfig == InitDecide

NextConfig ==
    \/ \E level \in RiskLevels : UpdateRiskLevel(level)
    \/ \E analysis \in DecideAnalyses : MakeDecision(analysis)

SpecConfig == InitConfig /\ [][NextConfig]_vars

---------------------------------------------------------------------------
(* Orders with a negative number of shares or a negative price *)

SignedShares == {0 - 1, 1, 2}

SignedPrices == {0 - 50, 50}

SignedOrders ==
    { Order(m, "YES", side, shares, price) :
        m \in Markets, side \in {"BUY", "SELL"},
        shares \in SignedShares, price \in SignedPrices }

InitSigned == New(InitialBalance, DEFAULT_CONFIG)

NextSigned == \E order \in SignedOrders : Execute(order)

SpecSigned == InitSigned /\ [][NextSigned]_vars

---------------------------------------------------------------------------
(* The BalanceManager driven through its own API *)

\* this.balance as the JavaScript object it is, lastUpdated being at
BalanceValue(b, at) ==
    Dress(Ledger(b, EmptyPositions, <<>>, <<>>, 0), at).balance

\* the cash, totalValue and initialBalance of a balance object that has them
BalanceRecord(x) ==
    [cash |-> Get(x, "cash").v.n,
     totalValue |-> Get(x, "totalValue").v.n,
     initialBalance |-> Get(x, "initialBalance").v.n]

CashAmounts == {Dollar \div 2, Dollar}

\* what balanceManager.serialize() returned in earlier runs, whose
\* INITIAL_BALANCE was this run's or one dollar more
SavedBalances ==
    { BalanceManager_serialize(BalanceValue(b, 1000)) :
        b \in UNION { {NewBalance(i * Dollar),
                       deductCash(NewBalance(i * Dollar), Dollar)} :
                      i \in {InitialBalance, InitialBalance + 1} } }

\* a call of the BalanceManager returned and left the balance b
BalanceCall(op, b) ==
    /\ b.cash <= (InitialBalance + 1) * Dollar
    /\ balance' = b
    /\ ret' = [op |-> op, was |-> balance]
    /\ UNCHANGED <<positions, keyOrder, history, nextId, agent>>

DeductCash(amount) == BalanceCall("deductCash", deductCash(balance, amount))

AddCash(amount) == BalanceCall("addCash", addCash(balance, amount))

UpdateTotalValue(positionsValue) ==
    BalanceCall("updateTotalValue", updateTotalValue(balance, positionsValue))

ResetBalance == BalanceCall("reset", BalanceManager_reset(balance))

\* balanceManager.restore(data), data a saved balance or text that does not parse
RestoreSaved(data) ==
    BalanceCall("restore",
                BalanceRecord(BalanceManager_restore(BalanceValue(balance, 2000),
                                                     data)))

InitBalance == New(InitialBalance, DEFAULT_CONFIG)

NextBalance ==
    \/ \E amount \in CashAmounts : DeductCash(amount)
    \/ \E amount \in CashAmounts : AddCash(amount)
    \/ \E positionsValue \in {0, Dollar} : UpdateTotalValue(positionsValue)
    \/ ResetBalance
    \/ \E data \in SavedBalances \cup {Unparsable} : RestoreSaved(data)

SpecBalance == InitBalance /\ [][NextBalance]_vars

---------------------------------------------------------------------------
(* Properties of start, stop, toggle and the timer, under SpecLifecycle    *)

\* C16: start() while running starts no cycle and arms no timer, stop()
\* while stopped changes nothing and emits no status change, toggle() always
\* flips isRunning, and at most one interval is armed after any sequence of
\* these calls
C16_Lifecycle ==
    [][/\ (ret'.op = "start" /\ status.isRunning) =>
              /\ UNCHANGED <<ledger, agent>>
              /\ ret'.emitted = 0
       /\ (ret'.op = "stop" /\ ~status.isRunning) =>
              /\ UNCHANGED <<ledger, agent>>
              /\ ret'.emitted = 0
       /\ ret'.op = "toggle" => status'.isRunning = ~status.isRunning
       /\ Cardinality(timers') <= 1]_vars

\* start() was called on a running agent whose interval is armed and whose
\* first cycle has ended
C16_Witness ==
    /\ ret = [op |-> "start", emitted |-> 0]
    /\ status.isRunning
    /\ timers = {intervalId}
    /\ cycles = <<>>

\* the catch of runCycle ran in the step
Threw == ret.op = "runCycle" /\ ret.did.threw

\* C17: a cycle that throws is caught inside the cycle: the step leaves
\* isRunning and the timer as they were, and on a running agent the interval
\* can fire next and start a cycle
C17_FailureKeepsRunning ==
    [][Threw' =>
          /\ status'.isRunning = status.isRunning
          /\ UNCHANGED timer
          /\ status.isRunning => TickGuard(intervalId)']_vars

\* a cycle started by the interval of a running agent failed after an
\* earlier cycle had filled an order
C17_Witness ==
    /\ Threw
    /\ status.isRunning
    /\ history # <<>>
    /\ ENABLED Tick(intervalId)

\* C18: the timer starts a cycle only while the agent is running: between
\* the return of stop() and the next start() or toggle() no tick happens
C18_NoTickAfterStop ==
    [][(ret'.op = "tick" /\ cycles' # cycles) => status.isRunning]_vars

\* stop() returned on an agent that was running, with a cycle still in flight
C18_Witness ==
    /\ ret = [op |-> "stop", emitted |-> 1]
    /\ ~status.isRunning
    /\ timers = {}
    /\ cycles # <<>>

---------------------------------------------------------------------------
(* Properties of serialize and restore, under SpecStore                    *)

\* the three components of a store that is the image of valid ledgers
WellFormed(S) ==
    /\ S.balance \in { T.balance : T \in Stores }
    /\ S.positions \in { T.positions : T \in Stores }
    /\ S.trades \in { T.trades : T \in Stores }

\* C19: restoring the serialization of a balance, of a position map, of a
\* trade history or of a whole portfolio, onto whatever state, leaves that
\* value with every field, Dates included, and touches nothing else
C19_RoundTrip ==
    [][\A T \in Stores :
          /\ (ret'.op = "restore" /\ ret'.data = PortfolioManager_serialize(T))
                 => store' = T
          /\ (ret'.op = "balance"
                  /\ ret'.data = BalanceManager_serialize(T.balance))
                 => store' = [store EXCEPT !.balance = T.balance]
          /\ (ret'.op = "positions"
                  /\ ret'.data = PositionTracker_serialize(T.positions))
                 => store' = [store EXCEPT !.positions = T.positions]
          /\ (ret'.op = "trades"
                  /\ ret'.data = TradeExecutor_serialize(T.trades))
                 => store' = [store EXCEPT !.trades = T.trades]]_vars

\* the saved ledger of scenarios A to C (a position with a fractional
\* avgPrice, a BUY and a SELL trade) was restored whole
C19_Witness ==
    /\ ret.op = "restore"
    /\ ret.data = PortfolioManager_serialize(store)
    /\ WellFormed(store)
    /\ Len(store.trades.v) = 3
    /\ Len(store.positions.v) = 1

\* the sub-blob k of the data handed to PortfolioManager.restore
SubBlob(data, k) ==
    IF JSON_parse(data) = <<>> THEN Undefined ELSE Get(JSON_parse(data)[1], k)

\* C20 as stated: PortfolioManager.restore returns, a sub-blob that is the
\* serialization of its component is restored, and a sub-blob that is
\* missing, unparsable or no serialization of its component leaves the
\* component as it was
C20_MalformedLeavesState ==
    [][ret'.op = "restore" =>
          \A k \in SubBlobs :
              IF \E T \in Stores : SubBlob(ret'.data, k) = JSON_stringify(T[k])
              THEN SubBlob(ret'.data, k) = JSON_stringify(store'[k])
              ELSE store'[k] = store[k]]_vars

---------------------------------------------------------------------------
(* Properties of the BalanceManager, under SpecBalance                     *)

\* C21 as stated: initialBalance is the construction-time initial balance in
\* every state, whatever calls of deductCash, addCash, updateTotalValue,
\* reset and restore were made.
C21_InitialBalanceImmutable ==
    balance.initialBalance = NewBalance(InitialBalance * Dollar).initialBalance

\* the initialBalance written in a saved balance
SavedInitialBalance(data) == BalanceRecord(JSON_parse(data)[1]).initialBalance

\* C21, amended: deductCash, addCash, updateTotalValue and reset leave
\* initialBalance as it was, and reset sets cash and totalValue to it;
\* restore of a saved balance sets initialBalance to the saved one, and
\* restore of text that does not parse leaves the balance alone.
C21_InitialBalanceFrame ==
    [][/\ ret'.op \in {"deductCash", "addCash", "updateTotalValue", "reset"}
          => balance'.initialBalance = balance.initialBalance
       /\ ret'.op = "reset"
          => /\ balance'.cash = balance.initialBalance
             /\ balance'.totalValue = balance.initialBalance
       /\ ret'.op = "restore"
          => \/ \E data \in SavedBalances :
                    /\ balance' = BalanceRecord(JSON_parse(data)[1])
                    /\ balance'.initialBalance = SavedInitialBalance(data)
             \/ balance' = balance]_vars

\* reset() was called after a restore had replaced initialBalance, and
\* went back to the restored one
C21_Witness ==
    /\ ret.op = "reset"
    /\ ret.was.cash # ret.was.initialBalance
    /\ balance.initialBalance # InitialBalance * Dollar
    /\ balance.cash = balance.initialBalance

---------------------------------------------------------------------------
(* Properties of the trade history, under Spec                             *)

\* C22: the history is append-only under execute(): a successful execute
\*      appends exactly one trade at the end, whose id differs from every
\*      earlier id, and changes no earlier entry; a failed execute appends
\*      nothing; so two successful executes of the same order leave two
\*      trades.
C22_AppendOnly ==
    [][ret'.op = "execute"
          => IF ret'.success
             THEN /\ Len(history') = Len(history) + 1
                  /\ SubSeq(history', 1, Len(history)) = history
                  /\ \A i \in DOMAIN history :
                         history[i].id # history'[Len(history')].id
             ELSE history' = history]_vars

\* the same order was executed twice with success: two trades that differ
\* in their id only
C22_Witness ==
    /\ ret.op = "execute" /\ ret.success
    /\ Len(history) = 2
    /\ history[1].id # history[2].id
    /\ [history[1] EXCEPT !.id = 0] = [history[2] EXCEPT !.id = 0]

---------------------------------------------------------------------------
(* Further properties of the agent's cycle, under SpecAgent                *)

\* C23: every trade a cycle executes with success, the BUY of a new
\*      position as well as the SELL of an exit, calls onTrade once: in each
\*      step of a cycle the number of onTrade calls is the number of trades
\*      the step appended to the history.
C23_OnTradePerTrade ==
    [][ret'.op = "runCycle" => ret'.did.onTrade = Len(NewTrades)]_vars

---------------------------------------------------------------------------
(* Properties of cycles in time, under SpecLive and SpecLifecycle          *)

\* C24: if from some point on the agent stays running, the interval starts
\*      a new cycle again and again, however many cycles failed: at every
\*      point there is a later one at which the agent is stopped or a tick
\*      has just started a cycle.
C24_CyclesRecur == []<>(~status.isRunning \/ ret.op = "tick")

\* a tick started a cycle on a running agent that has no market snapshot
\* yet: the cycle start() began is over and fetched nothing
C24_Witness ==
    /\ ret.op = "tick"
    /\ status.isRunning
    /\ markets = <<>>
    /\ Len(cycles) = 1

\* C25: stop() does not touch the cycles in flight: a stop() (or a toggle()
\*      that stops) on a running agent leaves every cycle parked where it
\*      was, and the ledger, the configuration and the markets as they
\*      were, so the cycle goes on from its await when the call returns.
C25_StopLeavesCycles ==
    [][(ret'.op \in {"stop", "toggle"} /\ status.isRunning)
          => /\ ~status'.isRunning
             /\ cycles' = cycles
             /\ UNCHANGED <<ledger, config, markets>>]_vars

\* with autoTrade on, a cycle that outlived stop() has just filled a BUY
\* while isRunning is false
C25_Witness ==
    /\ ret.op = "runCycle"
    /\ ret.autoTrade
    /\ ret.did.onTrade = 1
    /\ history # <<>>
    /\ ~status.isRunning

\* C26: nothing asks whether a cycle is in flight: every tick of the
\*      interval, and every start() (or starting toggle()) of a stopped
\*      agent, adds a cycle to those in flight, however many there are.
C26_NoInFlightGuard ==
    [][(\/ ret'.op = "tick"
        \/ ret'.op \in {"start", "toggle"} /\ ~status.isRunning)
          => cycles' = Append(cycles, Cycle("refresh", <<>>, <<>>, <<>>))]_vars

\* a tick has started a second cycle while the first is still parked at an
\* await
C26_Witness ==
    /\ ret.op = "tick"
    /\ Len(cycles) = 2

---------------------------------------------------------------------------
(* Properties of overlapping cycles and manual trades, under SpecOverlap   *)

\* where runCycle can be suspended: the market fetch (its own and
\* analyzeMarkets'), the price fetch and the advisory call
Awaits == {"refresh", "refreshAgain", "prices", "llm"}

\* ledger L1 is ledger L0, at most repriced
Repriced(L1, L0) ==
    /\ L1.balance.cash = L0.balance.cash
    /\ L1.history = L0.history
    /\ L1.nextId = L0.nextId
    /\ L1.keyOrder = L0.keyOrder
    /\ \A i \in DOMAIN L0.keyOrder :
           /\ L1.positions[L0.keyOrder[i]].shares = L0.positions[L0.keyOrder[i]].shares
           /\ L1.positions[L0.keyOrder[i]].avgPrice
                  = L0.positions[L0.keyOrder[i]].avgPrice

\* C27: ledger mutations never interleave inside a decision, whatever
\*      cycles overlap and whatever the user trades: every cycle in flight
\*      is parked at one of the awaits on an external call, and a cycle step
\*      that sends orders applies each order to exactly the ledger its exit
\*      check or risk check was made on: the first check sees the ledger of
\*      the step's start (repriced at most), each later check sees the
\*      ledger the previous order left, and the step ends in the ledger the
\*      last order left.
C27_NoInterleaving ==
    [][/\ \A c \in DOMAIN cycles' : cycles'[c].pc \in Awaits
       /\ ret'.op = "runCycle"
          => LET fills == ret'.did.fills
                 after(i) == execute(fills[i].checked, fills[i].order).ledger
             IN  IF fills = <<>> THEN Repriced(Cur', Cur)
                 ELSE /\ Repriced(fills[1].checked, Cur)
                      /\ \A i \in 1..(Len(fills) - 1) : after(i) = fills[i + 1].checked
                      /\ after(Len(fills)) = Cur']_vars

\* a cycle filled a BUY while another cycle was in flight, on a ledger that
\* already held a manual trade
C27_Witness ==
    /\ ret.op = "runCycle"
    /\ ret.did.onTrade = 1
    /\ cycles # <<>>
    /\ Len(history) = 2
    /\ history[1].shares \in {o.shares : o \in ManualOrders}

---------------------------------------------------------------------------
(* Properties of the opportunities of a cycle, under SpecLLM and SpecAgent *)

\* the opportunities the loop of runCycle went through, in its order
Visited == SubSeq(ret.did.found, 1, Len(ret.did.decisions))

\* C28: under every strategy, llm included, the opportunities a cycle
\*      evaluates are all non-HOLD and are visited in non-increasing order
\*      of confidence.
C28_ConfidenceOrder ==
    (ret.op = "runCycle" /\ ret.did.traded)
        => /\ \A i \in DOMAIN Visited : Visited[i].signal # "HOLD"
           /\ \A i, j \in DOMAIN Visited :
                  i < j => ~RLess(Visited[i].confidence, Visited[j].confidence)

---------------------------------------------------------------------------
(* Properties of the exit phase, under SpecExit                            *)

ShouldClose(position) == shouldClosePosition(position).shouldClose

\* C29: with autoTrade on, the exit phase sells every position that
\*      shouldClosePosition flags, in full, in one SELL at the position's
\*      currentPrice: the trades it appends are, in the order of the
\*      positions, one SELL per flagged position of all its shares at its
\*      currentPrice; the positions left are those that were not flagged,
\*      as they were, and none of them is flagged.
C29_ExitsSellAllFlagged ==
    (ret.op = "checkExits" /\ ret.autoTrade)
        => LET posBefore == getAllPositions(ret.before.positions, ret.before.keyOrder)
               flagged == SelectSeq(posBefore, ShouldClose)
               kept == SelectSeq(posBefore, LAMBDA q : ~ShouldClose(q))
               sold == SubSeq(history, Len(ret.before.history) + 1, Len(history))
           IN  /\ Len(sold) = Len(flagged)
               /\ \A i \in DOMAIN flagged :
                      /\ sold[i].side = "SELL"
                      /\ sold[i].marketId = flagged[i].marketId
                      /\ sold[i].outcome = flagged[i].outcome
                      /\ sold[i].shares = flagged[i].shares
                      /\ sold[i].price = flagged[i].currentPrice
               /\ getAllPositions(positions, keyOrder) = kept
               /\ \A i \in DOMAIN kept : ~ShouldClose(kept[i])

\* the exit phase found both positions of a ledger flagged and sold both
C29_Witness ==
    /\ ret.op = "checkExits" /\ ret.autoTrade
    /\ ret.did.flagged = 2
    /\ Len(history) = Len(ret.before.history) + 2
    /\ keyOrder = <<>>

---------------------------------------------------------------------------
(* Properties of a failed market fetch, under SpecAgent                    *)

\* C30: a cycle whose market fetch fails skips only that phase: when
\*      runCycle's refreshMarkets rejects while positions are held, the
\*      cycle stays in flight and goes on to fetch their prices (and from
\*      there to reprice them and to check their exits).
C30_FetchFailureSkipsOnlyFetch ==
    [][(/\ ret'.op = "runCycle"
        /\ ret'.did.threw
        /\ ret'.at = "refresh"
        /\ keyOrder # <<>>)
          => /\ Len(cycles') = Len(cycles)
             /\ \E c \in DOMAIN cycles' : cycles'[c].pc = "prices"]_vars

---------------------------------------------------------------------------
(* Further properties of the RiskManager, under SpecRisk                   *)

\* some open position in the market of the recorded call is worth
\* maxPositionSize or more
SomeSizeFails ==
    \E k \in DOMAIN positions :
        /\ positions[k].marketId = ret.analysis.market.condition_id
        /\ positions[k].shares * positions[k].currentPrice
               >= config.maxPositionSize * PriceScale

\* C31: whenever some open position in the analysis's market is worth
\*      maxPositionSize or more and the position count is below
\*      maxPositions, canTakeNewPosition rejects with the max-position-size
\*      reason, also when the market holds a YES and a NO position.
C31_AnyPositionInMarket ==
    (Checked /\ ~CountFails /\ SomeSizeFails)
        => /\ ~ret.result.allowed
           /\ ret.result.reason = "Max position size reached for this market"

---------------------------------------------------------------------------
(* Properties of the position keys, under SpecKeys                         *)

\* C32: two orders of different (marketId, outcome) pairs never read or
\*      update the same position, also when a market id or an outcome
\*      contains '-': a filled order changes no position of another pair
\*      than its own.
C32_OwnPositionPerPair ==
    [][(ret'.op = "execute" /\ ret'.success)
          => LET trade == history'[Len(history')]
             IN  \A k \in DOMAIN positions :
                     (k \notin DOMAIN positions' \/ positions'[k] # positions[k])
                         => /\ positions[k].marketId = trade.marketId
                            /\ positions[k].outcome = trade.outcome]_vars

---------------------------------------------------------------------------
(* Further properties of the ledger, under Spec                            *)

\* C33: updatePrices changes only the mark of the positions whose tokenId
\*      is in the price map, and totalValue: every
\*      position with an entry gets currentPrice = the entry and
\*      unrealizedPnL = (price - avgPrice) * shares and keeps its other
\*      fields, every position without an entry stays as it was; cash, the
\*      position keys and their order, the history stay as they were, and
\*      totalValue becomes cash + the value of the positions.
C33_UpdatePricesFrame ==
    [][ret'.op = "updatePrices"
          => /\ balance'.cash = balance.cash
             /\ balance'.initialBalance = balance.initialBalance
             /\ balance'.totalValue = balance.cash + getTotalValue(positions')
             /\ history' = history
             /\ nextId' = nextId
             /\ keyOrder' = keyOrder
             /\ DOMAIN positions' = DOMAIN positions
             /\ \A k \in DOMAIN positions :
                    IF positions[k].tokenId \in DOMAIN ret'.prices
                    THEN positions'[k] =
                             [positions[k] EXCEPT
                                 !.currentPrice = ret'.prices[positions[k].tokenId],
                                 !.unrealizedPnL =
                                     RMul(RSub(RInt(ret'.prices[positions[k].tokenId]),
                                               positions[k].avgPrice),
                                          RInt(positions[k].shares))]
                    ELSE positions'[k] = positions[k]]_vars

\* of two positions, updatePrices has marked one at 0.65 and the other,
\* whose token is not in the map, still has the mark of 0.02 it had
C33_Witness ==
    /\ ret.op = "updatePrices"
    /\ \E k1, k2 \in DOMAIN positions :
           /\ positions[k1].tokenId \in DOMAIN ret.prices
           /\ positions[k1].currentPrice = 65
           /\ positions[k2].tokenId \notin DOMAIN ret.prices
           /\ positions[k2].currentPrice = 2

---------------------------------------------------------------------------
(* Properties of execute() on negative inputs *)

\* C34: an order with negative shares or a negative price passed to
\*      execute() is rejected and leaves cash, positions and the trade
\*      history unchanged: every step that is the execution of such an
\*      order returns success = false and does not change the ledger.
C34_NegativeOrderRejected ==
    [][\A order \in SignedOrders :
           /\ order.shares < 0 \/ order.price < 0
           /\ ret' = execute(Cur, order).ret
           /\ Cur' = execute(Cur, order).ledger
           => ~ret'.success /\ Cur' = Cur]_vars

---------------------------------------------------------------------------
(* The P&L identity *)

\* an amount of ticks times shares in money units
Money(x) == RMul(x, RInt(FeeDen))

\* C35: from a fresh ledger and after any sequence of buys, sells and
\*      reprices, getSummary().totalPnL equals getTotalRealizedPnL() +
\*      getTotalUnrealizedPnL() - getTotalFees().
C35_PnLIdentity ==
    RInt(getSummary(Cur).totalPnL)
        = RSub(RAdd(Money(getTotalRealizedPnL(history)),
                    Money(getTotalUnrealizedPnL(positions))),
               RInt(getTotalFees(history)))

\* a buy and a partial sell with a realized gain, the rest repriced to a loss
C35_Witness ==
    /\ Len(history) = 2
    /\ RLess(RInt(0), getTotalRealizedPnL(history))
    /\ RLess(getTotalUnrealizedPnL(positions), RInt(0))
    /\ getTotalFees(history) > 0
    /\ ret.op = "updatePrices"

---------------------------------------------------------------------------
(* Properties of makeDecision *)

\* C36: every order that makeDecision returns with action EXECUTE, for a
\*      market whose quoted price is in (0, 1], has at least 10 shares and
\*      costs at most maxPositionSize and at most 10% of the cash, and
\*      execute() on the ledger the decision was made on fills it.
C36_ExecutableOrder ==
    /\ ret.op = "makeDecision"
    /\ ret.decision.action = "EXECUTE"
    /\ QuotedPrice(ret.analysis) \in 1..PriceScale
    => LET order == ret.decision.order[1]
       IN  /\ order.shares >= 10
           /\ order.shares * order.price * FeeDen <= config.maxPositionSize * Dollar
           /\ order.shares * order.price * FeeDen * 10 <= balance.cash
           /\ execute(Cur, order).ret.success

\* with 529.17 dollars of cash and a quote of 0.33, the decision is to buy
\* 160 shares: 52.80 dollars, under the 52.917 that are 10% of the cash
C36_Witness ==
    /\ ret.op = "makeDecision"
    /\ ret.decision.action = "EXECUTE"
    /\ balance.cash = 52917000
    /\ ret.decision.order[1].price = 33
    /\ ret.decision.order[1].shares = 160

---------------------------------------------------------------------------
(* Properties of the position count *)

\* C37: from an empty ledger changed by agent cycles only, under a fixed
\*      configuration, the number of open positions never exceeds
\*      maxPositions, also when cycles overlap.
C37_PositionCap == getPositionCount(positions) <= config.maxPositions

\* one position is open, another cycle is in flight, and the cycle that just
\* ran skipped an opportunity in a market the ledger holds nothing of
C37_Witness ==
    /\ ret.op = "runCycle"
    /\ getPositionCount(positions) = config.maxPositions
    /\ cycles # <<>>
    /\ ret.did.decisions # <<>>
    /\ \A i \in DOMAIN ret.did.decisions : ret.did.decisions[i] = "SKIP"
    /\ \E i \in DOMAIN ret.did.decisions :
           \A k \in DOMAIN positions :
               positions[k].marketId # ret.did.found[i].market.condition_id

---------------------------------------------------------------------------
(* Properties of re-entrant calls *)

\* C38: whenever no agent method is executing, the periodic timer is armed
\*      if and only if isRunning is true, for any sequence of start, stop
\*      and toggle calls, including calls made from the onStatusChange or
\*      onLog callbacks.
C38_TimerIffRunning == (timers # {}) <=> status.isRunning

---------------------------------------------------------------------------
(* Properties of updateConfig *)

====
